---- MODULE Spec2Model ----
(***************************************************************************)
(* The asset manifest of packages/remix-dev/compiler/manifest.ts: create   *)
(* (the builder loop over the bundler's outputs, the route-import          *)
(* optimizer, the version) as a state machine.                             *)
(*                                                                         *)
(* Strings that are sorted, concatenated, split or serialized are          *)
(* sequences of character codes (47 is "/", 92 is "\").  Strings that are  *)
(* only compared for equality (import kinds, export names, error           *)
(* messages) are TLA+ strings.  An optional field (a value or undefined)   *)
(* is a set with at most one element.                                      *)
(***************************************************************************)
EXTENDS Integers, Sequences, FiniteSets, TLC

VARIABLES
    input,         \* per build: the arguments of create and its environment
    pc,            \* per build: where create stands
    keys,          \* per build: sorted output keys the for-of loop has yet to visit
    curKey,        \* per build: the output key of the iteration in progress
    pending,       \* per build: routes of groupedRoute whose lookup is yet to run
    entry,         \* per build: `entry` (manifest.ts:51), optional
    routes,        \* per build: `routes` (manifest.ts:52), in insertion order
    rawRoutes,     \* per build: `routes` as the builder handed it to optimizeRoutes
    importsCache,  \* per build: `importsCache` of the pass in progress
    optKeys,       \* per build: keys the for-in loop of optimizeRoutes has yet to visit
    pass,          \* per build: number of optimizeRoutes passes begun
    result,        \* per build: the manifest create returned, optional
    err,           \* per build: the message of the error create or write threw, or ""
    writing,       \* per build: the file and contents write handed to writeFileSafe
    disk,          \* the file system: its directories and its files' contents
    origin,        \* the resolveDevOrigin call in progress (commands.ts:478), optional
    resolution     \* the onResolve call of server-bare-modules in progress, optional

vars == <<input, pc, keys, curKey, pending, entry, routes, rawRoutes,
          importsCache, optKeys, pass, result, err, writing, disk, origin, resolution>>

\* ------------------------------------------------------------------ bounds

MaxOutputs == 3   \* outputs in a bundler metafile
MaxRoutes == 3    \* routes in a route map handed directly to optimizeRoutes

\* ------------------------------------------------------------ option values

None == {}
Some(x) == {x}
IsSome(o) == o # {}
Val(o) == CHOOSE x \in o : TRUE

\* ----------------------------------------------------------------- strings

RECURSIVE StrLess(_, _)
\* s < t in the code-unit order Array.prototype.sort uses by default
StrLess(s, t) ==
    IF t = <<>> THEN FALSE
    ELSE IF s = <<>> THEN TRUE
    ELSE IF s[1] # t[1] THEN s[1] < t[1]
    ELSE StrLess(Tail(s), Tail(t))

StartsWith(s, p) == Len(s) >= Len(p) /\ SubSeq(s, 1, Len(p)) = p
EndsWith(s, p) == Len(s) >= Len(p) /\ SubSeq(s, Len(s) - Len(p) + 1, Len(s)) = p

RECURSIVE Split(_, _)
\* s.split(sep) for the one-character separators seps: the pieces between them
Split(s, seps) ==
    IF s = <<>> THEN << <<>> >>
    ELSE LET rest == Split(Tail(s), seps)
         IN  IF s[1] \in seps
             THEN << <<>> >> \o rest
             ELSE << <<s[1]>> \o rest[1] >> \o Tail(rest)

RECURSIVE Join(_, _)
\* pieces.join(sep)
Join(pieces, sep) ==
    IF pieces = <<>> THEN <<>>
    ELSE IF Len(pieces) = 1 THEN pieces[1]
    ELSE pieces[1] \o sep \o Join(Tail(pieces), sep)

RECURSIVE Insert(_, _)
Insert(k, sorted) ==
    IF sorted = <<>> THEN <<k>>
    ELSE IF StrLess(k, sorted[1]) THEN <<k>> \o sorted
    ELSE <<sorted[1]>> \o Insert(k, Tail(sorted))

RECURSIVE Sort(_)
\* Object.keys(metafile.outputs).sort(): ks in ascending code-unit order
Sort(ks) == IF ks = <<>> THEN <<>> ELSE Insert(ks[1], Sort(Tail(ks)))

\* ------------------------------------------------------------------- paths

\* The host's path module.  A win32 path is modelled without its drive.
Hosts == {"posix", "win32"}
Seps(os) == IF os = "win32" THEN {47, 92} ELSE {47}
HostSep(os) == IF os = "win32" THEN <<92>> ELSE <<47>>
Cwd == <<47, 119>>                      \* "/w", the build's working directory
DotDot == <<46, 46>>                    \* ".."

Segments(p, os) == SelectSeq(Split(p, Seps(os)), LAMBDA g : g # <<>>)
IsAbsolute(p, os) == p # <<>> /\ p[1] \in Seps(os)

\* path.resolve(p): the absolute path of p, in the host's separators
PathResolve(p, os) ==
    LET segs == IF IsAbsolute(p, os) THEN Segments(p, os)
                ELSE Segments(Cwd, os) \o Segments(p, os)
    IN  HostSep(os) \o Join(segs, HostSep(os))

RECURSIVE CommonPrefix(_, _)
CommonPrefix(a, b) ==
    IF a = <<>> \/ b = <<>> \/ a[1] # b[1] THEN 0
    ELSE 1 + CommonPrefix(Tail(a), Tail(b))

\* path.relative(from, to): to as seen from the directory from
PathRelative(from, to, os) ==
    LET f == Segments(PathResolve(from, os), os)
        t == Segments(PathResolve(to, os), os)
        c == CommonPrefix(f, t)
        ups == [i \in 1..(Len(f) - c) |-> DotDot]
    IN  Join(ups \o SubSeq(t, c + 1, Len(t)), HostSep(os))

\* The file appended as the host wrote it
createUrlRaw(publicPath, file) == publicPath \o file

\* createUrl: every "\" of file becomes "/", after publicPath
createUrl(publicPath, file) == publicPath \o Join(Split(file, {92}), <<47>>)

\* resolveUrl of create, for the configuration cfg on the host os
resolveUrl(cfg, os, outputPath) ==
    createUrl(cfg.publicPath,
              PathRelative(cfg.assetsBuildDirectory, PathResolve(outputPath, os), os))

\* -------------------------------------------------- the build's vocabulary

RouteModulePrefix == <<98, 114, 111, 119, 115, 101, 114, 45, 114, 111, 117, 116, 101, 45, 109, 111, 100, 117, 108, 101, 58>>   \* "browser-route-module:"
BrowserSuffix == <<63, 98, 114, 111, 119, 115, 101, 114>>       \* "?browser"

\* output.entryPoint.replace(/(^browser-route-module:|\?browser$)/g, "")
StripRouteTags(s) ==
    LET a == IF StartsWith(s, RouteModulePrefix)
             THEN SubSeq(s, Len(RouteModulePrefix) + 1, Len(s)) ELSE s
    IN  IF EndsWith(a, BrowserSuffix)
        THEN SubSeq(a, 1, Len(a) - Len(BrowserSuffix)) ELSE a

\* Route ids "r", "a", "b"; route files "x", "y", "z".
RootId == <<114>>
IdA == <<97>>
IdB == <<98>>
FileX == <<120>>
FileY == <<121>>
FileZ == <<122>>
RouteFiles == {FileX, FileY, FileZ}

ClientEntry == <<101>>                  \* "e", the client entry, relative to Cwd
OtherEntry == <<113>>                   \* "q", an entry point of a dynamic import
AssetsDir == <<111>>                    \* "o", the assets build directory
PublicPath == <<47, 112, 47>>           \* "/p/"
ChunkM == <<111, 47, 109>>              \* "o/m"
ChunkN == <<111, 47, 110>>              \* "o/n"
ChunkP == <<111, 47, 115, 47, 112>>     \* "o/s/p"
CssHref == <<47, 112, 47, 99>>          \* "/p/c"

\* The i-th output key: "o/a", "o/s/b", "o/c", "o/d", ...  ("o/s/b" sorts last)
OutputKey(i) == IF i = 2 THEN <<111, 47, 115, 47, 98>> ELSE <<111, 47, 96 + i>>

ConfigRoute(id, parentId, path, index, file) ==
    [id |-> id, parentId |-> parentId, path |-> path, index |-> index,
     caseSensitive |-> None, file |-> file]

\* config.routes, in the order of Object.keys(config.routes)
ChainRoutes ==
    << ConfigRoute(RootId, None, None, None, FileX),
       ConfigRoute(IdA, Some(RootId), Some(IdA), None, FileY),
       ConfigRoute(IdB, Some(IdA), None, Some(TRUE), FileZ) >>
SharedFileRoutes ==
    << ConfigRoute(RootId, None, None, None, FileX),
       ConfigRoute(IdA, Some(RootId), Some(IdA), None, FileY),
       ConfigRoute(IdB, Some(RootId), Some(IdB), None, FileY) >>
RouteTrees == {ChainRoutes, SharedFileRoutes}

Config(rts, os) ==
    [routes |-> rts,
     publicPath |-> PublicPath,
     assetsBuildDirectory |-> PathResolve(AssetsDir, os),
     entryClientFilePath |-> PathResolve(ClientEntry, os)]

\* output.entryPoint as the bundler reports it
EntryPoints ==
    {None, Some(ClientEntry), Some(OtherEntry)}
    \cup {Some(RouteModulePrefix \o f \o BrowserSuffix) : f \in RouteFiles}

Import(p, kind) == [path |-> p, kind |-> kind]
ImportsNone == <<>>
ImportsMixed ==
    << Import(ChunkM, "import-statement"), Import(ChunkN, "dynamic-import"),
       Import(ChunkP, "import-statement") >>
ImportsOne == << Import(ChunkM, "import-statement") >>
ImportsRequire ==
    << Import(ChunkP, "require-call"), Import(ChunkN, "import-statement"),
       Import(ChunkM, "import-statement") >>
\* output.imports of the i-th output under each import scheme
ImportSchemes ==
    << <<ImportsMixed, ImportsNone, ImportsRequire, ImportsOne>>,
       <<ImportsOne, ImportsRequire, ImportsMixed, ImportsNone>> >>
ImportsOfOutput(scheme, i) == ImportSchemes[scheme][((i - 1) % 4) + 1]

\* What getRouteModuleExports reports for each route id
PlainExports == [id \in {RootId, IdA, IdB} |-> {"default"}]
RichExports ==
    (RootId :> {"loader"}) @@ (IdA :> {"action", "loader", "default"})
        @@ (IdB :> {"CatchBoundary", "ErrorBoundary"})
ExportSchemes == {PlainExports, RichExports}

Hmr == [timestamp |-> 1, runtime |-> <<47, 112, 47, 104>>]

\* A metafile: the outputs by key and the order Object.keys enumerates them in
Metafile(n, eps, scheme, order) ==
    [order |-> order,
     outputs |-> [k \in {OutputKey(i) : i \in 1..n} |->
                    LET i == CHOOSE j \in 1..n : OutputKey(j) = k
                    IN  [entryPoint |-> eps[i], imports |-> ImportsOfOutput(scheme, i)]]]

\* ------------------------------------------------------- the routes object

\* Manifest["routes"]: an object, kept as its entries in insertion order
RouteIds(rts) == [i \in 1..Len(rts) |-> rts[i].id]
HasRoute(rts, id) == \E i \in 1..Len(rts) : rts[i].id = id
GetRoute(rts, id) == rts[CHOOSE i \in 1..Len(rts) : rts[i].id = id]
\* rts[id] = rec: a new key is appended, an existing key keeps its place
PutRoute(rts, id, rec) ==
    IF HasRoute(rts, id)
    THEN [i \in 1..Len(rts) |-> IF rts[i].id = id THEN rec ELSE rts[i]]
    ELSE Append(rts, rec)

\* `Object.create(null)`: the import cache before any route is pruned
EmptyCache == [id \in {} |-> <<>>]

\* ------------------------------------------------------------- the builder

\* invariant(value, message) lets a truthy value pass and throws otherwise
invariant(value) == IsSome(value)

\* A grouping that keeps the first route of each file only
routesByFileFirstOnly(cfg, file) ==
    LET group == SelectSeq(cfg.routes, LAMBDA r : r.file = file)
    IN  IF group = <<>> THEN None ELSE Some(<<group[1]>>)

\* routesByFile.get(file): the routes of config.routes backed by file, in the
\* order of Object.keys(config.routes); undefined when there is none
routesByFile(cfg, file) ==
    LET group == SelectSeq(cfg.routes, LAMBDA r : r.file = file)
    IN  IF group = <<>> THEN None ELSE Some(group)

\* A filter that drops the dynamic imports only
NonDynamicImports(imports) == SelectSeq(imports, LAMBDA im : im.kind # "dynamic-import")

\* Only imports of kind import-statement are kept
StaticImports(imports) == SelectSeq(imports, LAMBDA im : im.kind = "import-statement")

resolveImports(cfg, os, imports) ==
    LET kept == StaticImports(imports)
    IN  [i \in 1..Len(kept) |-> resolveUrl(cfg, os, kept[i].path)]

\* Every entry point that is no route module taken for the client entry
IsNotRouteModule(cfg, os, entryPoint) == ~StartsWith(entryPoint, RouteModulePrefix)

\* path.resolve(output.entryPoint) === config.entryClientFilePath
IsClientEntry(cfg, os, entryPoint) == PathResolve(entryPoint, os) = cfg.entryClientFilePath

IsRouteModule(entryPoint) == StartsWith(entryPoint, RouteModulePrefix)

\* The four flags all read from the one export name "loader"
ManifestRouteLoaderFlags(cfg, os, key, output, route, sourceExports) ==
    [id |-> route.id,
     parentId |-> route.parentId,
     path |-> route.path,
     index |-> route.index,
     caseSensitive |-> route.caseSensitive,
     module |-> resolveUrl(cfg, os, key),
     imports |-> Some(resolveImports(cfg, os, output.imports)),
     hasAction |-> "loader" \in sourceExports,
     hasLoader |-> "loader" \in sourceExports,
     hasCatchBoundary |-> "loader" \in sourceExports,
     hasErrorBoundary |-> "loader" \in sourceExports]

\* The entry of routes[route.id] built at manifest.ts:76-88
ManifestRoute(cfg, os, key, output, route, sourceExports) ==
    [id |-> route.id,
     parentId |-> route.parentId,
     path |-> route.path,
     index |-> route.index,
     caseSensitive |-> route.caseSensitive,
     module |-> resolveUrl(cfg, os, key),
     imports |-> Some(resolveImports(cfg, os, output.imports)),
     hasAction |-> "action" \in sourceExports,
     hasLoader |-> "loader" \in sourceExports,
     hasCatchBoundary |-> "CatchBoundary" \in sourceExports,
     hasErrorBoundary |-> "ErrorBoundary" \in sourceExports]

\* The loop without the sort: the keys as Object.keys enumerates them
UnsortedKeys(metafile) == metafile.order

\* The key order of the for-of loop at manifest.ts:54
LoopKeys(metafile) == Sort(metafile.order)

Builds == {1, 2}
Cfg(b) == input[b].config
Os(b) == input[b].os
CurOutput(b) == input[b].metafile.outputs[Head(keys[b])]
InLoop(b) == pc[b] = "loop" /\ keys[b] # <<>>

\* manifest.ts:56: an output that is no entry point is skipped
SkipNonEntry(b) ==
    /\ InLoop(b)
    /\ ~IsSome(CurOutput(b).entryPoint)
    /\ keys' = [keys EXCEPT ![b] = Tail(@)]
    /\ UNCHANGED <<origin, resolution, disk, writing, input, pc, curKey, pending, entry, routes, rawRoutes,
                   importsCache, optKeys, pass, result, err>>

\* manifest.ts:58-62: the client entry sets `entry`
SetEntry(b) ==
    /\ InLoop(b)
    /\ IsSome(CurOutput(b).entryPoint)
    /\ IsClientEntry(Cfg(b), Os(b), Val(CurOutput(b).entryPoint))
    /\ entry' = [entry EXCEPT ![b] =
                   Some([module |-> resolveUrl(Cfg(b), Os(b), Head(keys[b])),
                         imports |-> resolveImports(Cfg(b), Os(b), CurOutput(b).imports)])]
    /\ keys' = [keys EXCEPT ![b] = Tail(@)]
    /\ UNCHANGED <<origin, resolution, disk, writing, input, pc, curKey, pending, routes, rawRoutes,
                   importsCache, optKeys, pass, result, err>>

\* manifest.ts:64-74: a route-module entry point whose file backs routes
BeginRoutes(b) ==
    /\ InLoop(b)
    /\ IsSome(CurOutput(b).entryPoint)
    /\ LET ep == Val(CurOutput(b).entryPoint)
           groupedRoute == routesByFile(Cfg(b), StripRouteTags(ep))
       IN  /\ ~IsClientEntry(Cfg(b), Os(b), ep)
           /\ IsRouteModule(ep)
           /\ invariant(groupedRoute)
           /\ pending' = [pending EXCEPT ![b] = Val(groupedRoute)]
    /\ curKey' = [curKey EXCEPT ![b] = Head(keys[b])]
    /\ keys' = [keys EXCEPT ![b] = Tail(@)]
    /\ pc' = [pc EXCEPT ![b] = "lookup"]
    /\ UNCHANGED <<origin, resolution, disk, writing, input, entry, routes, rawRoutes, importsCache, optKeys,
                   pass, result, err>>

\* A loop that drops the entry point (`continue`) instead of failing
DropNoRoute(b) ==
    /\ InLoop(b)
    /\ IsSome(CurOutput(b).entryPoint)
    /\ LET ep == Val(CurOutput(b).entryPoint)
       IN  /\ StartsWith(ep, RouteModulePrefix)
           /\ ~invariant(routesByFile(Cfg(b), StripRouteTags(ep)))
    /\ keys' = [keys EXCEPT ![b] = Tail(@)]
    /\ UNCHANGED <<origin, resolution, disk, writing, input, pc, curKey, pending, entry, routes, rawRoutes,
                   importsCache, optKeys, pass, result, err>>

\* manifest.ts:70-73: a route-module entry point whose file backs no route
FailNoRoute(b) ==
    /\ InLoop(b)
    /\ IsSome(CurOutput(b).entryPoint)
    /\ LET ep == Val(CurOutput(b).entryPoint)
       IN  /\ ~IsClientEntry(Cfg(b), Os(b), ep)
           /\ IsRouteModule(ep)
           /\ ~invariant(routesByFile(Cfg(b), StripRouteTags(ep)))
    /\ pc' = [pc EXCEPT ![b] = "error"]
    /\ err' = [err EXCEPT ![b] = "Cannot get route(s) for entry point"]
    /\ UNCHANGED <<origin, resolution, disk, writing, input, keys, curKey, pending, entry, routes, rawRoutes,
                   importsCache, optKeys, pass, result>>

\* manifest.ts:58-90: any other entry point falls through both branches
IgnoreOther(b) ==
    /\ InLoop(b)
    /\ IsSome(CurOutput(b).entryPoint)
    /\ ~IsClientEntry(Cfg(b), Os(b), Val(CurOutput(b).entryPoint))
    /\ ~IsRouteModule(Val(CurOutput(b).entryPoint))
    /\ keys' = [keys EXCEPT ![b] = Tail(@)]
    /\ UNCHANGED <<origin, resolution, disk, writing, input, pc, curKey, pending, entry, routes, rawRoutes,
                   importsCache, optKeys, pass, result, err>>

\* manifest.ts:75-88: the awaited lookup returns and routes[route.id] is set
Lookup(b) ==
    /\ pc[b] = "lookup"
    /\ LET route == Head(pending[b])
           sourceExports == input[b].exports[route.id]
           output == input[b].metafile.outputs[curKey[b]]
       IN  routes' = [routes EXCEPT ![b] =
                        PutRoute(@, route.id,
                                 ManifestRoute(Cfg(b), Os(b), curKey[b], output,
                                               route, sourceExports))]
    /\ pending' = [pending EXCEPT ![b] = Tail(@)]
    /\ pc' = [pc EXCEPT ![b] = IF Tail(pending[b]) = <<>> THEN "loop" ELSE "lookup"]
    /\ UNCHANGED <<origin, resolution, disk, writing, input, keys, curKey, entry, rawRoutes, importsCache, optKeys,
                   pass, result, err>>

\* A build that falls back to an empty entry instead of failing
MissingEntryDefaulted(b) ==
    /\ pc[b] = "loop" /\ keys[b] = <<>>
    /\ ~invariant(entry[b])
    /\ entry' = [entry EXCEPT ![b] = Some([module |-> <<>>, imports |-> <<>>])]
    /\ pc' = [pc EXCEPT ![b] = "optimize"]
    /\ rawRoutes' = [rawRoutes EXCEPT ![b] = routes[b]]
    /\ importsCache' = [importsCache EXCEPT ![b] = EmptyCache]
    /\ optKeys' = [optKeys EXCEPT ![b] = RouteIds(routes[b])]
    /\ pass' = [pass EXCEPT ![b] = 1]
    /\ UNCHANGED <<origin, resolution, disk, writing, input, keys, curKey, pending, routes, result, err>>

\* manifest.ts:93: no output was the client entry
MissingEntry(b) ==
    /\ pc[b] = "loop" /\ keys[b] = <<>>
    /\ ~invariant(entry[b])
    /\ pc' = [pc EXCEPT ![b] = "error"]
    /\ err' = [err EXCEPT ![b] = "Missing output for entry point"]
    /\ UNCHANGED <<origin, resolution, disk, writing, input, keys, curKey, pending, entry, routes, rawRoutes,
                   importsCache, optKeys, pass, result>>

\* An optimizer entered as soon as the entry is set, outputs still unvisited
BeginOptimizeEarly(b) ==
    /\ pc[b] = "loop"
    /\ invariant(entry[b])
    /\ pc' = [pc EXCEPT ![b] = "optimize"]
    /\ rawRoutes' = [rawRoutes EXCEPT ![b] = routes[b]]
    /\ importsCache' = [importsCache EXCEPT ![b] = EmptyCache]
    /\ optKeys' = [optKeys EXCEPT ![b] = RouteIds(routes[b])]
    /\ pass' = [pass EXCEPT ![b] = 1]
    /\ UNCHANGED <<origin, resolution, disk, writing, input, keys, curKey, pending, entry, routes, result, err>>

\* manifest.ts:93-95, 145-147: optimizeRoutes is entered with a fresh cache
BeginOptimize(b) ==
    /\ pc[b] = "loop" /\ keys[b] = <<>>
    /\ invariant(entry[b])
    /\ pc' = [pc EXCEPT ![b] = "optimize"]
    /\ rawRoutes' = [rawRoutes EXCEPT ![b] = routes[b]]
    /\ importsCache' = [importsCache EXCEPT ![b] = EmptyCache]
    /\ optKeys' = [optKeys EXCEPT ![b] = RouteIds(routes[b])]
    /\ pass' = [pass EXCEPT ![b] = 1]
    /\ UNCHANGED <<origin, resolution, disk, writing, input, keys, curKey, pending, entry, routes, result, err>>

\* ----------------------------------------------------------- the optimizer

Includes(list, url) == \E i \in 1..Len(list) : list[i] = url

\* `if (route.parentId)`: undefined and "" are falsy
HasParent(route) == IsSome(route.parentId) /\ Val(route.parentId) # <<>>

\* `route.imports || []`
ImportsOrEmpty(imports) == IF IsSome(imports) THEN Val(imports) ELSE <<>>

\* The parent's pruned list left out of what covers the route
ConcatNothing(parentImports, more) ==
    [shared |-> parentImports, local |-> parentImports]

\* parentImports.push(...more): the array the caller passed grows in place
PushImports(parentImports, more) ==
    [shared |-> parentImports \o more, local |-> parentImports \o more]

\* `parentImports = parentImports.concat(more)`: the local name is rebound to a
\* new array (local) and the array the caller passed stays as it was (shared)
ConcatImports(parentImports, more) ==
    [shared |-> parentImports, local |-> parentImports \o more]

\* The filter with its negation lost
KeepsCoveredUrl(covered, url) == Includes(covered, url)

\* The test of the filter at manifest.ts:168-170
KeepsUrl(covered, url) == ~Includes(covered, url)

\* The filtered list stored back to front
ImportsFieldReversed(routeImports) ==
    IF Len(routeImports) > 0
    THEN Some([i \in 1..Len(routeImports) |-> routeImports[Len(routeImports) + 1 - i]])
    ELSE None

\* The first URL of the filtered list stored alone
ImportsFieldFirstOnly(routeImports) ==
    IF Len(routeImports) > 0 THEN Some(<<routeImports[1]>>) ELSE None

\* The assignment without the test for an empty list
ImportsFieldAlways(routeImports) == Some(routeImports)

\* manifest.ts:174: an empty list is stored as undefined
ImportsField(routeImports) ==
    IF Len(routeImports) > 0 THEN Some(routeImports) ELSE None

\* A test that takes a cached empty list for no list
IsCachedNonEmpty(cache, routeId) == routeId \in DOMAIN cache /\ cache[routeId] # <<>>

\* `if (importsCache[routeId])`: any cached array, the empty one too, is truthy
IsCached(cache, routeId) == routeId \in DOMAIN cache

RECURSIVE optimizeRouteImports(_, _, _, _)
\* The call optimizeRouteImports(routeId, routes, parentImports, importsCache):
\* the routes and the cache it leaves, the array parentImports as it leaves
\* it, the list it returns, the routes whose imports it wrote (in order), and
\* whether it threw (routes[routeId] undefined at `route.parentId`).
optimizeRouteImports(routeId, rts, parentImports, cache) ==
    IF IsCached(cache, routeId)
    THEN [routes |-> rts, cache |-> cache, parentImports |-> parentImports,
          ret |-> cache[routeId], writes |-> <<>>, threw |-> FALSE]
    ELSE IF ~HasRoute(rts, routeId)
    THEN [routes |-> rts, cache |-> cache, parentImports |-> parentImports,
          ret |-> <<>>, writes |-> <<>>, threw |-> TRUE]
    ELSE
    LET route == GetRoute(rts, routeId)
        \* the recursive call on the parent, made once (manifest.ts:163-168)
        parentCall == {IF HasParent(route)
                       THEN optimizeRouteImports(Val(route.parentId), rts, parentImports,
                                                 cache)
                       ELSE [routes |-> rts, cache |-> cache,
                             parentImports |-> parentImports,
                             ret |-> <<>>, writes |-> <<>>, threw |-> FALSE]}
    IN  CHOOSE call \in
          {IF up.threw THEN up
           ELSE
           LET cc == IF HasParent(route)
                     THEN ConcatImports(up.parentImports, up.ret)
                     ELSE [shared |-> up.parentImports, local |-> up.parentImports]
               routeImports ==
                   SelectSeq(ImportsOrEmpty(GetRoute(up.routes, routeId).imports),
                             LAMBDA url : KeepsUrl(cc.local, url))
           IN  [routes |-> PutRoute(up.routes, routeId,
                                    [GetRoute(up.routes, routeId)
                                       EXCEPT !.imports = ImportsField(routeImports)]),
                cache |-> (routeId :> routeImports) @@ up.cache,
                parentImports |-> cc.shared,
                ret |-> routeImports,
                writes |-> Append(up.writes, routeId),
                threw |-> FALSE]
           : up \in parentCall} : TRUE

\* One import cache kept at module level: every build looks up the first's
OptimizeCallSharedCache(b) ==
    optimizeRouteImports(Head(optKeys[b]), routes[b], Val(entry[b]).imports,
                         importsCache[1])

\* The call of one iteration of the for-in loop at manifest.ts:147-149
OptimizeCall(b) ==
    optimizeRouteImports(Head(optKeys[b]), routes[b], Val(entry[b]).imports,
                         importsCache[b])

\* An iteration that prunes the route and visits the same key again
OptimizeRouteAgain(b) ==
    /\ pc[b] = "optimize" /\ optKeys[b] # <<>>
    /\ ~OptimizeCall(b).threw
    /\ routes' = [routes EXCEPT ![b] = OptimizeCall(b).routes]
    /\ importsCache' = [importsCache EXCEPT ![b] = OptimizeCall(b).cache]
    /\ UNCHANGED <<origin, resolution, disk, writing, input, pc, keys, curKey, pending, entry, rawRoutes,
                   optKeys, pass, result, err>>

\* manifest.ts:147-149: one iteration of optimizeRoutes' loop
OptimizeRoute(b) ==
    /\ pc[b] = "optimize" /\ optKeys[b] # <<>>
    /\ ~OptimizeCall(b).threw
    /\ routes' = [routes EXCEPT ![b] = OptimizeCall(b).routes]
    /\ importsCache' = [importsCache EXCEPT ![b] = OptimizeCall(b).cache]
    /\ entry' = [entry EXCEPT ![b] =
                   Some([Val(@) EXCEPT !.imports = OptimizeCall(b).parentImports])]
    /\ optKeys' = [optKeys EXCEPT ![b] = Tail(@)]
    /\ UNCHANGED <<origin, resolution, disk, writing, input, pc, keys, curKey, pending, rawRoutes, pass, result, err>>

\* A loop that passes over a route whose parent is missing from the map
OptimizeSkipsMissing(b) ==
    /\ pc[b] = "optimize" /\ optKeys[b] # <<>>
    /\ OptimizeCall(b).threw
    /\ optKeys' = [optKeys EXCEPT ![b] = Tail(@)]
    /\ UNCHANGED <<origin, resolution, disk, writing, input, pc, keys, curKey, pending, entry, routes,
                   rawRoutes, importsCache, pass, result, err>>

\* manifest.ts:160-162: a parentId that names no route of the map makes
\* `route.parentId` throw a TypeError out of create
OptimizeThrows(b) ==
    /\ pc[b] = "optimize" /\ optKeys[b] # <<>>
    /\ OptimizeCall(b).threw
    /\ pc' = [pc EXCEPT ![b] = "error"]
    /\ err' = [err EXCEPT ![b] = "TypeError"]
    /\ UNCHANGED <<origin, resolution, disk, writing, input, keys, curKey, pending, entry, routes, rawRoutes,
                   importsCache, optKeys, pass, result>>

\* ------------------------------------------------------------- the version

\* The property names JSON.stringify writes
Key ==
    [entry |-> <<101, 110, 116, 114, 121>>,
     routes |-> <<114, 111, 117, 116, 101, 115>>,
     cssBundleHref |-> <<99, 115, 115, 66, 117, 110, 100, 108, 101, 72, 114, 101, 102>>,
     module |-> <<109, 111, 100, 117, 108, 101>>,
     imports |-> <<105, 109, 112, 111, 114, 116, 115>>,
     id |-> <<105, 100>>,
     parentId |-> <<112, 97, 114, 101, 110, 116, 73, 100>>,
     path |-> <<112, 97, 116, 104>>,
     index |-> <<105, 110, 100, 101, 120>>,
     caseSensitive |-> <<99, 97, 115, 101, 83, 101, 110, 115, 105, 116, 105, 118, 101>>,
     hasAction |-> <<104, 97, 115, 65, 99, 116, 105, 111, 110>>,
     hasLoader |-> <<104, 97, 115, 76, 111, 97, 100, 101, 114>>,
     hasCatchBoundary |-> <<104, 97, 115, 67, 97, 116, 99, 104, 66, 111, 117, 110, 100, 97, 114, 121>>,
     hmr |-> <<104, 109, 114>>,
     version |-> <<118, 101, 114, 115, 105, 111, 110>>,
     url |-> <<117, 114, 108>>,
     timestamp |-> <<116, 105, 109, 101, 115, 116, 97, 109, 112>>,
     runtime |-> <<114, 117, 110, 116, 105, 109, 101>>,
     hasErrorBoundary |-> <<104, 97, 115, 69, 114, 114, 111, 114, 66, 111, 117, 110, 100, 97, 114, 121>>]
JsonTrue == <<116, 114, 117, 101>>
JsonFalse == <<102, 97, 108, 115, 101>>

\* JSON.stringify of a string, an array, an object (of its members that are
\* not undefined) and a member.  No string of the model needs escaping.
JsonString(str) == <<34>> \o str \o <<34>>
JsonArray(items) == <<91>> \o Join(items, <<44>>) \o <<93>>
JsonObject(members) == <<123>> \o Join(members, <<44>>) \o <<125>>
JsonBool(v) == IF v THEN JsonTrue ELSE JsonFalse
\* JSON.stringify of a number below ten
JsonNumber(n) == <<48 + n>>
Member(key, json) == << JsonString(key) \o <<58>> \o json >>
\* A member whose value may be undefined: json is the optional serialized value
OptMember(key, json) == IF IsSome(json) THEN Member(key, Val(json)) ELSE <<>>
JsonUrls(urls) == JsonArray([i \in 1..Len(urls) |-> JsonString(urls[i])])

StringifyEntry(e) ==
    JsonObject(Member(Key.module, JsonString(e.module))
               \o Member(Key.imports, JsonUrls(e.imports)))

StringifyRoute(r) ==
    JsonObject(Member(Key.id, JsonString(r.id))
               \o OptMember(Key.parentId, {JsonString(v) : v \in r.parentId})
               \o OptMember(Key.path, {JsonString(v) : v \in r.path})
               \o OptMember(Key.index, {JsonBool(v) : v \in r.index})
               \o OptMember(Key.caseSensitive, {JsonBool(v) : v \in r.caseSensitive})
               \o Member(Key.module, JsonString(r.module))
               \o OptMember(Key.imports, {JsonUrls(v) : v \in r.imports})
               \o Member(Key.hasAction, JsonBool(r.hasAction))
               \o Member(Key.hasLoader, JsonBool(r.hasLoader))
               \o Member(Key.hasCatchBoundary, JsonBool(r.hasCatchBoundary))
               \o Member(Key.hasErrorBoundary, JsonBool(r.hasErrorBoundary)))

StringifyRoutes(rts) ==
    JsonObject([i \in 1..Len(rts) |->
                  JsonString(rts[i].id) \o <<58>> \o StringifyRoute(rts[i])])

StringifyHmr(h) ==
    JsonObject(Member(Key.timestamp, JsonNumber(h.timestamp))
               \o Member(Key.runtime, JsonString(h.runtime)))

\* The hot-reload descriptor fingerprinted with the rest
FingerprintedWithHmr(e, rts, cssBundleHref, hmr) ==
    [entry |-> e, routes |-> rts, cssBundleHref |-> cssBundleHref, hmr |-> hmr]

\* The values the version is computed from (manifest.ts:97-101)
FingerprintedValues(e, rts, cssBundleHref, hmr) ==
    [entry |-> e, routes |-> rts, cssBundleHref |-> cssBundleHref]

\* JSON.stringify(fingerprintedValues)
Stringify(fv) ==
    JsonObject(Member(Key.entry, StringifyEntry(fv.entry))
               \o Member(Key.routes, StringifyRoutes(fv.routes))
               \o OptMember(Key.cssBundleHref, {JsonString(v) : v \in fv.cssBundleHref})
               \o IF "hmr" \in DOMAIN fv
                  THEN OptMember(Key.hmr, {StringifyHmr(v) : v \in fv.hmr}) ELSE <<>>)

RECURSIVE PolyHash(_, _, _, _)
\* The polynomial hash of str[lo..hi] with multiplier m, modulo 2^15, and
\* m^(hi-lo+1): computed by halves
PolyHash(str, lo, hi, m) ==
    IF lo > hi THEN [h |-> 0, p |-> 1]
    ELSE IF lo = hi THEN [h |-> str[lo] % 32768, p |-> m]
    ELSE LET mid == (lo + hi) \div 2
             l == PolyHash(str, lo, mid, m)
             r == PolyHash(str, mid + 1, hi, m)
         IN  [h |-> (l.h * r.p + r.h) % 32768, p |-> (l.p * r.p) % 32768]
Lane(str, m) == PolyHash(str, 1, Len(str), m).h
HexDigit(d) == IF d < 10 THEN 48 + d ELSE 87 + d
Hex4(n) == << HexDigit(n \div 4096), HexDigit((n \div 256) % 16),
              HexDigit((n \div 16) % 16), HexDigit(n % 16) >>
\* getHash: a hex digest of the string, here of three 15-bit lanes
getHash(str) == Hex4(Lane(str, 31)) \o Hex4(Lane(str, 37)) \o Hex4(Lane(str, 41))

\* manifest.ts:103
Version(fv) == SubSeq(getHash(Stringify(fv)), 1, 8)

\* manifest.ts:97-113: the manifest create returns
Manifest(e, rts, cssBundleHref, hmr) ==
    LET fv == FingerprintedValues(e, rts, cssBundleHref, hmr)
    IN  [entry |-> e, routes |-> rts, cssBundleHref |-> cssBundleHref,
         version |-> Version(fv), hmr |-> hmr, url |-> None]

\* manifest.ts:97-113: optimizeRoutes has returned; create returns the manifest
Finish(b) ==
    /\ pc[b] = "optimize" /\ optKeys[b] = <<>>
    /\ result' = [result EXCEPT ![b] =
                    Some(Manifest(Val(entry[b]), routes[b],
                                  input[b].cssBundleHref, input[b].hmr))]
    /\ pc' = [pc EXCEPT ![b] = "done"]
    /\ UNCHANGED <<origin, resolution, disk, writing, input, keys, curKey, pending, entry, routes, rawRoutes,
                   importsCache, optKeys, pass, err>>

\* -------------------------------------------------------------- the writer

WindowPrefix == <<119, 105, 110, 100, 111, 119, 46, 95, 95, 114, 101, 109, 105, 120, 77, 97, 110, 105, 102, 101, 115, 116, 61>>   \* "window.__remixManifest="
ManifestPrefix == <<109, 97, 110, 105, 102, 101, 115, 116, 45>>     \* "manifest-"
JsSuffix == <<46, 106, 115>>                                        \* ".js"

\* A version used as it is
KeepCase(str) == str

\* String.prototype.toUpperCase, on the letters a-z
ToUpperCase(str) ==
    [i \in 1..Len(str) |-> IF str[i] \in 97..122 THEN str[i] - 32 ELSE str[i]]

\* path.join(dir, name) for an absolute dir, and path.dirname(file)
PathJoin(dir, name, os) ==
    HostSep(os) \o Join(Segments(dir, os) \o Segments(name, os), HostSep(os))
PathDirname(file, os) ==
    LET segs == Segments(file, os)
    IN  HostSep(os) \o Join(SubSeq(segs, 1, Len(segs) - 1), HostSep(os))

\* manifest.ts:117
ManifestFilename(version) == ManifestPrefix \o ToUpperCase(version) \o JsSuffix

\* JSON.stringify(assetsManifest): the members in the order they were set
StringifyManifest(m) ==
    JsonObject(Member(Key.entry, StringifyEntry(m.entry))
               \o Member(Key.routes, StringifyRoutes(m.routes))
               \o OptMember(Key.cssBundleHref, {JsonString(v) : v \in m.cssBundleHref})
               \o Member(Key.version, JsonString(m.version))
               \o OptMember(Key.hmr, {StringifyHmr(v) : v \in m.hmr})
               \o OptMember(Key.url, {JsonString(v) : v \in m.url}))

\* manifest.ts:123
ManifestScript(m) == WindowPrefix \o StringifyManifest(m) \o <<59>>

\* A file system with no directory and no file
EmptyDisk == [dirs |-> {}, files |-> [f \in {} |-> <<>>]]

\* What a failed fsp.writeFile can leave at the path once it has opened it:
\* the file truncated, or the part of the contents written before the failure
InterruptedWrites(contents) == {<<>>, SubSeq(contents, 1, Len(contents) \div 2)}

\* manifest.ts:116-123, 127-128: write names the file, stamps the manifest's
\* url, serializes the manifest and calls writeFileSafe, which awaits mkdir
WriteBegin(b) ==
    /\ pc[b] = "done"
    /\ LET filename == ManifestFilename(Val(result[b]).version)
           stamped == [Val(result[b]) EXCEPT !.url = Some(Cfg(b).publicPath \o filename)]
       IN  /\ result' = [result EXCEPT ![b] = Some(stamped)]
           /\ writing' = [writing EXCEPT ![b] =
                            Some([file |-> PathJoin(Cfg(b).assetsBuildDirectory, filename, Os(b)),
                                  contents |-> ManifestScript(stamped)])]
    /\ pc' = [pc EXCEPT ![b] = "mkdir"]
    /\ UNCHANGED <<origin, resolution, disk, input, keys, curKey, pending, entry, routes, rawRoutes,
                   importsCache, optKeys, pass, err>>

\* manifest.ts:128: mkdir made the directory of the file (or it existed)
Mkdir(b) ==
    /\ pc[b] = "mkdir"
    /\ disk' = [disk EXCEPT !.dirs = @ \cup {PathDirname(Val(writing[b]).file, Os(b))}]
    /\ pc' = [pc EXCEPT ![b] = "writeFile"]
    /\ UNCHANGED <<origin, resolution, writing, input, keys, curKey, pending, entry, routes, rawRoutes,
                   importsCache, optKeys, pass, result, err>>

\* manifest.ts:128: mkdir rejected; write rejects and no file is touched
MkdirFails(b) ==
    /\ pc[b] = "mkdir"
    /\ pc' = [pc EXCEPT ![b] = "error"]
    /\ err' = [err EXCEPT ![b] = "mkdir failed"]
    /\ UNCHANGED <<origin, resolution, disk, writing, input, keys, curKey, pending, entry, routes,
                   rawRoutes, importsCache, optKeys, pass, result>>

\* manifest.ts:129-130: writeFile replaced the file's contents
WriteFile(b) ==
    /\ pc[b] = "writeFile"
    /\ disk' = [disk EXCEPT !.files =
                  (Val(writing[b]).file :> Val(writing[b]).contents) @@ @]
    /\ pc' = [pc EXCEPT ![b] = "written"]
    /\ UNCHANGED <<origin, resolution, writing, input, keys, curKey, pending, entry, routes, rawRoutes,
                   importsCache, optKeys, pass, result, err>>

\* manifest.ts:129: writeFile rejected, before it opened the file or after
WriteFileFails(b) ==
    /\ pc[b] = "writeFile"
    /\ \/ UNCHANGED disk
       \/ \E left \in InterruptedWrites(Val(writing[b]).contents) :
            disk' = [disk EXCEPT !.files = (Val(writing[b]).file :> left) @@ @]
    /\ pc' = [pc EXCEPT ![b] = "error"]
    /\ err' = [err EXCEPT ![b] = "writeFile failed"]
    /\ UNCHANGED <<origin, resolution, writing, input, keys, curKey, pending, entry, routes, rawRoutes,
                   importsCache, optKeys, pass, result>>

\* write(config, manifest), called with the manifest create returned
WriteStep(b) ==
    \/ WriteBegin(b)
    \/ Mkdir(b)
    \/ MkdirFails(b)
    \/ WriteFile(b)
    \/ WriteFileFails(b)

\* ------------------------------------------------------ the specifications

Input(tree, os, metafile, cssBundleHref, hmr, exports) ==
    [config |-> Config(tree, os), os |-> os, metafile |-> metafile,
     cssBundleHref |-> cssBundleHref, hmr |-> hmr, exports |-> exports]

\* The arguments of a create call that is never made
IdleInput == Input(ChainRoutes, "posix", Metafile(0, <<>>, 1, <<>>), None, None, PlainExports)

Identity(n) == [i \in 1..n |-> OutputKey(i)]
Reversed(n) == [i \in 1..n |-> OutputKey(n + 1 - i)]

\* Every build in `active` stands at the head of the loop at manifest.ts:54
Begin(inputs, active) ==
    /\ input = inputs
    /\ pc = [b \in Builds |-> IF b \in active THEN "loop" ELSE "idle"]
    /\ keys = [b \in Builds |->
                 IF b \in active THEN LoopKeys(inputs[b].metafile) ELSE <<>>]
    /\ curKey = [b \in Builds |-> <<>>]
    /\ pending = [b \in Builds |-> <<>>]
    /\ entry = [b \in Builds |-> None]
    /\ routes = [b \in Builds |-> <<>>]
    /\ rawRoutes = [b \in Builds |-> <<>>]
    /\ importsCache = [b \in Builds |-> EmptyCache]
    /\ optKeys = [b \in Builds |-> <<>>]
    /\ pass = [b \in Builds |-> 0]
    /\ result = [b \in Builds |-> None]
    /\ err = [b \in Builds |-> ""]
    /\ writing = [b \in Builds |-> None]
    /\ disk = EmptyDisk

Step(b) ==
    \/ SkipNonEntry(b)
    \/ SetEntry(b)
    \/ BeginRoutes(b)
    \/ FailNoRoute(b)
    \/ IgnoreOther(b)
    \/ Lookup(b)
    \/ MissingEntry(b)
    \/ BeginOptimize(b)
    \/ OptimizeRoute(b)
    \/ OptimizeThrows(b)
    \/ Finish(b)

\* One build: create over every metafile of MaxOutputs outputs, then write
\* with the manifest it returned; the build with the richer exports also has
\* a stylesheet and a hot-reload descriptor
Init ==
    \E tree \in RouteTrees, os \in Hosts, scheme \in 1..Len(ImportSchemes),
       eps \in [1..MaxOutputs -> EntryPoints], exports \in ExportSchemes :
        LET extras == \E id \in DOMAIN exports : "loader" \in exports[id]
            inp == Input(tree, os, Metafile(MaxOutputs, eps, scheme, Identity(MaxOutputs)),
                         IF extras THEN Some(CssHref) ELSE None,
                         IF extras THEN Some(Hmr) ELSE None, exports)
        IN  Begin((1 :> inp) @@ (2 :> IdleInput), {1}) /\ origin = None /\ resolution = None

Next == Step(1) \/ WriteStep(1)

Spec == Init /\ [][Next]_vars

\* ---------------------------------------- two builds of the same project

\* The entry points the i-th output of a pair of builds is drawn from
PairEntryPointList ==
    << Some(ClientEntry), None, Some(RouteModulePrefix \o FileZ \o BrowserSuffix),
       Some(RouteModulePrefix \o FileX \o BrowserSuffix),
       Some(RouteModulePrefix \o FileY \o BrowserSuffix), Some(OtherEntry),
       Some(RouteModulePrefix \o FileY \o BrowserSuffix), Some(ClientEntry),
       Some(RouteModulePrefix \o FileX \o BrowserSuffix) >>
PairEntryPoints(i) == {PairEntryPointList[((3 * (i - 1) + j) % 9) + 1] : j \in 0..2}

\* What the second build's arguments differ from the first's in
Variations == {"nothing", "order", "hmr", "css", "exports"}

\* Two create calls, interleaved at every step; the second differs from the
\* first in one respect
InitPair ==
    \E tree \in RouteTrees, variation \in Variations,
       eps \in {f \in [1..MaxOutputs -> EntryPoints] :
                  \A i \in 1..MaxOutputs : f[i] \in PairEntryPoints(i)} :
        LET first == Input(tree, "posix", Metafile(MaxOutputs, eps, 1, Identity(MaxOutputs)),
                           None, None, PlainExports)
            second == Input(tree, "posix",
                            Metafile(MaxOutputs, eps, 1,
                                     IF variation = "order" THEN Reversed(MaxOutputs)
                                     ELSE Identity(MaxOutputs)),
                            IF variation = "css" THEN Some(CssHref) ELSE None,
                            IF variation = "hmr" THEN Some(Hmr) ELSE None,
                            IF variation = "exports" THEN RichExports ELSE PlainExports)
        IN  Begin((1 :> first) @@ (2 :> second), {1, 2}) /\ origin = None /\ resolution = None

NextPair == \E b \in Builds : Step(b)

SpecPair == InitPair /\ [][NextPair]_vars

\* --------------------------------------- optimizeRoutes on given route maps

UrlM == <<47, 112, 47, 109>>            \* "/p/m"
UrlN == <<47, 112, 47, 110>>            \* "/p/n"
UrlE == <<47, 112, 47, 101>>            \* "/p/e"
RawImportLists == {<<>>, <<UrlM>>, <<UrlN, UrlM>>}

OptId(i) == <<96 + i>>                  \* "a", "b", "c", ...

RECURSIVE Climb(_, _, _)
\* The k-th ancestor of position i under the parent map par (0: none)
Climb(par, i, k) == IF k = 0 \/ i = 0 THEN i ELSE Climb(par, par[i], k - 1)

\* Parent maps over the positions 1..n that form a forest
Forests(n) == {par \in [1..n -> 0..n] : \A i \in 1..n : Climb(par, i, n) = 0}

OptRoute(i, par, imports) ==
    [id |-> OptId(i),
     parentId |-> IF par[i] = 0 THEN None ELSE Some(OptId(par[i])),
     path |-> Some(OptId(i)), index |-> None, caseSensitive |-> None,
     module |-> PublicPath \o OptId(i),
     imports |-> Some(imports[i]),
     hasAction |-> FALSE, hasLoader |-> FALSE,
     hasCatchBoundary |-> FALSE, hasErrorBoundary |-> FALSE]

\* manifest.ts:145-147: optimizeRoutes is called again, on the routes it left
Reoptimize(b) ==
    /\ pc[b] = "optimize" /\ optKeys[b] = <<>>
    /\ pass[b] = 1
    /\ rawRoutes' = [rawRoutes EXCEPT ![b] = routes[b]]
    /\ importsCache' = [importsCache EXCEPT ![b] = EmptyCache]
    /\ optKeys' = [optKeys EXCEPT ![b] = RouteIds(routes[b])]
    /\ pass' = [pass EXCEPT ![b] = 2]
    /\ UNCHANGED <<origin, resolution, disk, writing, input, pc, keys, curKey, pending, entry, routes, result, err>>

\* Entry imports [A, B]; a parent with raw imports [A, B, C] and its child
\* with raw imports [A, B, C, D], inserted parent first and child first
UrlA == <<47, 112, 47, 65>>             \* "/p/A"
UrlB == <<47, 112, 47, 66>>             \* "/p/B"
UrlC == <<47, 112, 47, 67>>             \* "/p/C"
UrlD == <<47, 112, 47, 68>>             \* "/p/D"
ParentFirst ==
    LET par == <<0, 1>>
        imports == << <<UrlA, UrlB, UrlC>>, <<UrlA, UrlB, UrlC, UrlD>> >>
    IN  [i \in 1..2 |-> OptRoute(i, par, imports)]
ChildFirst ==
    LET par == <<2, 0>>
        imports == << <<UrlA, UrlB, UrlC, UrlD>>, <<UrlA, UrlB, UrlC>> >>
    IN  [i \in 1..2 |-> OptRoute(i, par, imports)]

\* The builder has left the routes rts and the entry; optimizeRoutes is entered
BeginOpt(rts, entryImports) ==
    /\ input = [b \in Builds |-> IdleInput]
    /\ pc = (1 :> "optimize") @@ (2 :> "idle")
    /\ keys = [b \in Builds |-> <<>>]
    /\ curKey = [b \in Builds |-> <<>>]
    /\ pending = [b \in Builds |-> <<>>]
    /\ entry = (1 :> Some([module |-> UrlE, imports |-> entryImports])) @@ (2 :> None)
    /\ routes = (1 :> rts) @@ (2 :> <<>>)
    /\ rawRoutes = (1 :> rts) @@ (2 :> <<>>)
    /\ importsCache = [b \in Builds |-> EmptyCache]
    /\ optKeys = (1 :> RouteIds(rts)) @@ (2 :> <<>>)
    /\ pass = (1 :> 1) @@ (2 :> 0)
    /\ result = [b \in Builds |-> None]
    /\ err = [b \in Builds |-> ""]
    /\ writing = [b \in Builds |-> None]
    /\ disk = EmptyDisk
    /\ origin = None
    /\ resolution = None

\* The builder has left a forest of MaxRoutes routes, in any insertion order
\* relative to the parent edges, or the parent and child above
InitOpt ==
    \/ \E par \in Forests(MaxRoutes), imports \in [1..MaxRoutes -> RawImportLists],
          entryImports \in RawImportLists :
           BeginOpt([i \in 1..MaxRoutes |-> OptRoute(i, par, imports)], entryImports)
    \/ \E rts \in {ParentFirst, ChildFirst} : BeginOpt(rts, <<UrlA, UrlB>>)

NextOpt == OptimizeRoute(1) \/ Reoptimize(1)

SpecOpt == InitOpt /\ [][NextOpt]_vars

\* The for-in loop is synchronous: an iteration that can run does run
SpecOptFair == SpecOpt /\ WF_vars(OptimizeRoute(1))

\* --------------------------------------------------- the dev server origin

\* `a ?? b`: b when a is undefined
Coalesce(a, b) == IF IsSome(a) THEN a ELSE b

\* ToBoolean of an optional string: undefined and "" are falsy
Truthy(a) == IsSome(a) /\ Val(a) # ""

\* `dev === true ? undefined : dev.scheme`, and the same for host and port
DevField(dev, field) == IF dev.kind = "true" THEN None ELSE dev[field]

\* commands.ts:489-492. The conditional operator binds looser than `??`, so
\* the statement reads
\*   (flags.scheme ?? dev.scheme ?? (flags.tlsKey && flags.tlsCert))
\*       ? "https" : "http"
SchemeOf(dev, flags) ==
    LET tls == IF Truthy(flags.tlsKey) THEN flags.tlsCert ELSE flags.tlsKey
    IN  IF Truthy(Coalesce(Coalesce(flags.scheme, DevField(dev, "scheme")), tls))
        THEN "https" ELSE "http"

\* commands.ts:485-486: unstable_dev is false
DevDisabled ==
    /\ IsSome(origin) /\ Val(origin).pc = "called"
    /\ Val(origin).dev.kind = "false"
    /\ origin' = Some([Val(origin) EXCEPT !.pc = "error"])
    /\ UNCHANGED <<resolution, disk, writing, input, pc, keys, curKey, pending, entry,
                   routes, rawRoutes, importsCache, optKeys, pass, result, err>>

\* commands.ts:485-502: scheme and host are computed, and the port when a
\* flag or the config gives it; otherwise the call awaits findPort
ResolveDevOrigin ==
    /\ IsSome(origin) /\ Val(origin).pc = "called"
    /\ Val(origin).dev.kind # "false"
    /\ LET dev == Val(origin).dev
           flags == Val(origin).flags
           port == Coalesce(flags.port, DevField(dev, "port"))
       IN  origin' = Some([Val(origin) EXCEPT
                             !.scheme = Some(SchemeOf(dev, flags)),
                             !.host = Coalesce(Coalesce(flags.host, DevField(dev, "host")),
                                               Some("localhost")),
                             !.port = port,
                             !.pc = IF IsSome(port) THEN "returned" ELSE "findPort"])
    /\ UNCHANGED <<resolution, disk, writing, input, pc, keys, curKey, pending, entry,
                   routes, rawRoutes, importsCache, optKeys, pass, result, err>>

\* commands.ts:471, 502-508: findPort resolves with a port of 3001..3100 and
\* the origin is returned
FindPort ==
    /\ IsSome(origin) /\ Val(origin).pc = "findPort"
    /\ \E free \in {3001, 3100} :
        origin' = Some([Val(origin) EXCEPT !.port = Some(free), !.pc = "returned"])
    /\ UNCHANGED <<resolution, disk, writing, input, pc, keys, curKey, pending, entry,
                   routes, rawRoutes, importsCache, optKeys, pass, result, err>>

\* One call resolveDevOrigin(config, flags): unstable_dev false, true or an
\* object with any of scheme, host and port; any of the five flags
InitDev ==
    /\ Begin([b \in Builds |-> IdleInput], {})
    /\ resolution = None
    /\ \E kind \in {"false", "true", "object"},
          devScheme, scheme \in {None, Some("http"), Some("https")},
          devHost, host \in {None, Some("0.0.0.0")},
          devPort, port \in {None, Some(8002)},
          tlsKey \in {None, Some("key.pem")}, tlsCert \in {None, Some("cert.pem")} :
        /\ kind # "object" => devScheme = None /\ devHost = None /\ devPort = None
        /\ origin = Some([pc |-> "called",
                          dev |-> [kind |-> kind, scheme |-> devScheme,
                                   host |-> devHost, port |-> devPort],
                          flags |-> [scheme |-> scheme, host |-> host, port |-> port,
                                     tlsKey |-> tlsKey, tlsCert |-> tlsCert],
                          scheme |-> None, host |-> None, port |-> None])

NextDev == DevDisabled \/ ResolveDevOrigin \/ FindPort

SpecDev == InitDev /\ [][NextDev]_vars

\* ------------------------------------------- the server-bare-modules plugin

\* part_001:282-284; isAbsolute is the host's path.isAbsolute
isBareModuleId(id, os) ==
    /\ ~StartsWith(id, <<110, 111, 100, 101, 58>>)                  \* "node:"
    /\ ~StartsWith(id, <<46>>)                                    \* "."
    /\ ~IsAbsolute(id, os)

\* A resolver that ignores the tsconfig paths
resolvePathIdentity(tsconfigPath, id) == id

\* part_001:156-167: without a tsconfig the id itself; with one,
\* `matchPath(id, ...) || id`, matchPath giving the file a paths entry maps the
\* id to, or undefined
resolvePath(tsconfigPath, id) ==
    IF ~IsSome(tsconfigPath) THEN id
    ELSE LET paths == Val(tsconfigPath)
             matched == IF id \in DOMAIN paths THEN Some(paths[id]) ELSE None
         IN  IF IsSome(matched) /\ Val(matched) # <<>> THEN Val(matched) ELSE id

\* part_001:275-280
getNpmPackageName(id) ==
    LET split == Split(id, {47})
        second == IF Len(split) >= 2 THEN split[2]
                  ELSE <<117, 110, 100, 101, 102, 105, 110, 101, 100>>     \* "undefined"
    IN  IF StartsWith(split[1], <<64>>) THEN split[1] \o <<47>> \o second ELSE split[1]

\* part_001:271-273, over two of the names of node's builtinModules
isNodeBuiltIn(packageName) ==
    packageName \in {<<102, 115>>, <<112, 97, 116, 104>>}      \* "fs", "path"

\* The ids of the compiler's two virtual modules
VirtualModules ==
    [serverBuild |-> <<64, 114, 101, 109, 105, 120, 45, 114, 117, 110, 47, 100, 101, 118, 47, 115, 101, 114, 118, 101, 114, 45, 98, 117, 105, 108, 100>>,
                     \* "@remix-run/dev/server-build"
     assetsManifest |-> <<64, 114, 101, 109, 105, 120, 45, 114, 117, 110, 47, 100, 101, 118, 47, 97, 115, 115, 101, 116, 115, 45, 109, 97, 110, 105, 102, 101, 115, 116>>]
                     \* "@remix-run/dev/assets-manifest"

\* The suffix the CSS side-effect plugin appends to the imports it rewrites
isCssSideEffectImportPath(path) ==
    EndsWith(path, <<63, 95, 95, 114, 101, 109, 105, 120, 95, 115, 105, 100, 101, 69, 102, 102, 101, 99, 116, 95, 95>>)
                   \* "?__remix_sideEffect__"

\* part_001:171-266: the onResolve callback on ({importer, kind, path}) in the
\* context (config, options) on a host: what it returns (undefined, or the path
\* marked external) and the keys it hands to options.onWarning, in order
onResolve(args) ==
    LET path == args.path
        undefined == [result |-> None, warnings |-> <<>>]
        packageName == getNpmPackageName(path)
        pkgManager == Val(Coalesce(args.pkgManager, Some("npm")))
        IsWord(ch) == ch \in (48..57) \cup (65..90) \cup (97..122) \cup {95}
        \* /\bnode_modules\b/.test(importer)
        inNodeModules ==
            \E i \in 1..Len(args.importer) :
                /\ i + 11 <= Len(args.importer)
                /\ SubSeq(args.importer, i, i + 11) =
                     <<110, 111, 100, 101, 95, 109, 111, 100, 117, 108, 101, 115>>
                /\ i = 1 \/ ~IsWord(args.importer[i - 1])
                /\ i + 11 = Len(args.importer) \/ ~IsWord(args.importer[i + 12])
        \* 210-232: require.resolve throws for a package that is not installed
        notFound ==
            IF /\ args.onWarning
               /\ ~isNodeBuiltIn(packageName)
               /\ ~inNodeModules
               /\ pkgManager = "npm" \/ (pkgManager = "yarn" /\ ~args.pnp)
               /\ ~args.pkg.installed
            THEN <<path>> ELSE <<>>
        \* 247-259, 286-335: warnOnceIfEsmOnlyPackage warns of an installed
        \* package of type "module" whose exports have no require condition
        esmOnly ==
            IF /\ args.onWarning
               /\ ~isNodeBuiltIn(packageName)
               /\ args.kind # "dynamic-import"
               /\ args.serverPlatform = "node"
               /\ args.pkg.installed /\ args.pkg.module /\ ~args.pkg.requireExport
            THEN <<packageName \o <<58, 101, 115, 109, 45, 111, 110, 108, 121>>>>   \* ":esm-only"
            ELSE <<>>
        bundle == args.serverDependenciesToBundle
    IN  IF ~isBareModuleId(resolvePath(args.tsconfigPath, path), args.os) THEN undefined
        ELSE IF path = <<64, 114, 101, 109, 105, 120, 45, 114, 117, 110, 47, 99, 115, 115, 45, 98, 117, 110, 100, 108, 101>>
                                                         \* "@remix-run/css-bundle"
        THEN undefined
        ELSE IF path = <<114, 101, 109, 105, 120>> THEN undefined    \* "remix"
        ELSE IF path = VirtualModules.serverBuild \/ path = VirtualModules.assetsManifest
        THEN undefined
        ELSE IF EndsWith(path, <<46, 99, 115, 115>>) THEN undefined             \* ".css"
        ELSE IF isCssSideEffectImportPath(path) THEN undefined
        ELSE IF bundle.all THEN [result |-> None, warnings |-> notFound]
        ELSE IF \E n \in 1..Len(bundle.patterns) :
                    IF bundle.patterns[n].type = "string"
                    THEN path = bundle.patterns[n].source
                    ELSE StartsWith(path, bundle.patterns[n].source)
        THEN [result |-> None, warnings |-> notFound]
        ELSE [result |-> Some([path |-> path, external |-> TRUE]),
              warnings |-> notFound \o esmOnly]

\* part_001:171: esbuild calls the callback, which runs to its return
OnResolve ==
    /\ IsSome(resolution) /\ Val(resolution).pc = "called"
    /\ resolution' = Some([Val(resolution) EXCEPT
                             !.pc = "returned",
                             !.result = onResolve(Val(resolution).args).result,
                             !.warnings = onResolve(Val(resolution).args).warnings])
    /\ UNCHANGED <<origin, disk, writing, input, pc, keys, curKey, pending, entry,
                   routes, rawRoutes, importsCache, optKeys, pass, result, err>>

\* One import met by esbuild: relative, absolute on either host, node:,
\* always-bundled, plain and scoped package specifiers, one of them a tsconfig
\* paths alias; serverDependenciesToBundle "all" or a list of strings and of
\* regular expressions /^source/
InitResolve ==
    /\ Begin([b \in Builds |-> IdleInput], {})
    /\ origin = None
    /\ \E path \in {<<97>>, <<102, 115>>, <<46, 47, 97>>, <<47, 97>>, <<92, 97>>,
                    <<110, 111, 100, 101, 58, 102, 115>>,
                    <<114, 101, 109, 105, 120>>,
                    <<64, 114, 101, 109, 105, 120, 45, 114, 117, 110, 47, 99, 115, 115, 45, 98, 117, 110, 100, 108, 101>>,
                    VirtualModules.serverBuild, VirtualModules.assetsManifest,
                    <<97, 46, 99, 115, 115>>,
                    <<97, 46, 99, 115, 115, 63, 95, 95, 114, 101, 109, 105, 120, 95, 115, 105, 100, 101, 69, 102, 102, 101, 99, 116, 95, 95>>,
                    <<126, 47, 97>>, <<126, 47, 98>>, <<64, 115, 47, 112, 47, 120>>},
          os \in Hosts,
          tsconfigPath \in {None, Some(<<126, 47, 97>> :> <<47, 97, 112, 112, 47, 97, 46, 116, 115>>)},
          bundle \in {[all |-> TRUE, patterns |-> <<>>],
                      [all |-> FALSE, patterns |-> <<>>],
                      [all |-> FALSE, patterns |-> <<[type |-> "string", source |-> <<97>>]>>],
                      [all |-> FALSE, patterns |->
                         <<[type |-> "string", source |-> <<120>>],
                           [type |-> "regexp", source |-> <<64, 115, 47>>]>>]},
          importer \in {<<47, 97, 112, 112, 47, 114, 46, 116, 115>>,
                        <<47, 110, 111, 100, 101, 95, 109, 111, 100, 117, 108, 101, 115, 47, 97, 47, 105, 46, 106, 115>>},
          kind \in {"import-statement", "dynamic-import"},
          serverPlatform \in {"node", "neutral"},
          onWarning \in BOOLEAN,
          env \in {[pkgManager |-> None, pnp |-> FALSE],
                   [pkgManager |-> Some("yarn"), pnp |-> TRUE],
                   [pkgManager |-> Some("pnpm"), pnp |-> FALSE]},
          pkg \in {[installed |-> FALSE, module |-> FALSE, requireExport |-> FALSE],
                   [installed |-> TRUE, module |-> TRUE, requireExport |-> TRUE],
                   [installed |-> TRUE, module |-> TRUE, requireExport |-> FALSE]} :
        resolution = Some([pc |-> "called",
                           args |-> [path |-> path, importer |-> importer, kind |-> kind,
                                     os |-> os, tsconfigPath |-> tsconfigPath,
                                     serverDependenciesToBundle |-> bundle,
                                     serverPlatform |-> serverPlatform,
                                     onWarning |-> onWarning,
                                     pkgManager |-> env.pkgManager, pnp |-> env.pnp,
                                     pkg |-> pkg],
                           result |-> None, warnings |-> <<>>])

NextResolve == OnResolve

SpecResolve == InitResolve /\ [][NextResolve]_vars

\* ------------------------------------------------- claims on the optimizer

SetOf(list) == {list[i] : i \in 1..Len(list)}

RECURSIVE AncestorsOf(_, _)
\* The ids on the parent chain of the route id (parent, grandparent, ...)
AncestorsOf(rts, id) ==
    IF HasRoute(rts, id) /\ HasParent(GetRoute(rts, id))
    THEN LET p == Val(GetRoute(rts, id).parentId) IN {p} \cup AncestorsOf(rts, p)
    ELSE {}

\* The import list of route id before the pass and after it
RawOf(b, id) == ImportsOrEmpty(GetRoute(rawRoutes[b], id).imports)
PrunedOf(b, id) == ImportsOrEmpty(GetRoute(routes[b], id).imports)
EntryImports(b) == Val(entry[b]).imports
Ids(b) == SetOf(RouteIds(routes[b]))

\* optimizeRoutes' n-th pass has visited every key
PassDone(b, n) == pc[b] = "optimize" /\ optKeys[b] = <<>> /\ pass[b] = n

\* What a route and its ancestors and the entry still load after the pass
LoadedFor(b, id) ==
    SetOf(PrunedOf(b, id)) \cup SetOf(EntryImports(b))
    \cup UNION {SetOf(PrunedOf(b, a)) : a \in AncestorsOf(routes[b], id)}

\* C1 (as claimed): after the pass, no route's pruned list holds a URL of the
\* entry's import list or of the raw import list of any of its ancestors.
C1_CoverageLaw ==
    PassDone(1, 1) =>
        \A id \in Ids(1) : \A url \in SetOf(PrunedOf(1, id)) :
            /\ url \notin SetOf(EntryImports(1))
            /\ \A a \in AncestorsOf(routes[1], id) : url \notin SetOf(RawOf(1, a))

\* C2 (as claimed): for every route, its pruned imports, its ancestors' pruned
\* imports and the entry's imports together equal, as a set, its raw list.
C2_NoLossEquality ==
    PassDone(1, 1) => \A id \in Ids(1) : LoadedFor(1, id) = SetOf(RawOf(1, id))

\* The entry's imports and the raw imports of every ancestor of id are among
\* the raw imports of id
Nested(b, id) ==
    /\ SetOf(EntryImports(b)) \subseteq SetOf(RawOf(b, id))
    /\ \A a \in AncestorsOf(routes[b], id) : SetOf(RawOf(b, a)) \subseteq SetOf(RawOf(b, id))

\* C2 (amended): every URL of a route's raw list is in the union of its pruned
\* imports, its ancestors' pruned imports and the entry's imports; the union
\* equals the raw list, as a set, when the entry's imports and every
\* ancestor's raw imports are among the route's raw imports.
C2_NoLoss ==
    PassDone(1, 1) =>
        \A id \in Ids(1) :
            /\ SetOf(RawOf(1, id)) \subseteq LoadedFor(1, id)
            /\ Nested(1, id) => LoadedFor(1, id) = SetOf(RawOf(1, id))

\* A pass ended on a grandchild whose raw list holds both its ancestors' raw
\* lists and the entry's, and which kept a URL of its own
C2_Witness ==
    /\ PassDone(1, 1)
    /\ \E id \in Ids(1) :
        /\ Cardinality(AncestorsOf(routes[1], id)) = 2
        /\ Nested(1, id)
        /\ EntryImports(1) # <<>>
        /\ PrunedOf(1, id) # <<>>

\* C3: a second pass of optimizeRoutes, with a fresh cache and the same entry
\* imports, changes no route's imports field, cleared fields included.
C3_Idempotent ==
    pass[1] = 2 =>
        /\ RouteIds(routes[1]) = RouteIds(rawRoutes[1])
        /\ \A i \in 1..Len(routes[1]) : routes[1][i].imports = rawRoutes[1][i].imports

\* The second pass ended over a manifest with a cleared field and a kept
\* list below a parent
C3_Witness ==
    /\ PassDone(1, 2)
    /\ \E i \in 1..Len(routes[1]) : routes[1][i].imports = None
    /\ \E i \in 1..Len(routes[1]) :
        HasParent(routes[1][i]) /\ routes[1][i].imports # None

\* C4: a route's imports field is absent exactly when its pruned list is
\* empty and is the pruned list otherwise; after the pass no route has an
\* empty list as its imports.
C4_EmptyListOmitted ==
    \A i \in 1..Len(routes[1]) :
        LET r == routes[1][i]
        IN  /\ r.id \in DOMAIN importsCache[1] =>
                /\ (r.imports = None) <=> (importsCache[1][r.id] = <<>>)
                /\ r.imports # None => r.imports = {importsCache[1][r.id]}
            /\ PassDone(1, 1) => r.id \in DOMAIN importsCache[1] /\ r.imports # {<<>>}

\* A pass ended with one route's field cleared and another's kept
C4_Witness ==
    /\ PassDone(1, 1)
    /\ \E i \in 1..Len(routes[1]) :
        routes[1][i].imports = None /\ rawRoutes[1][i].imports # {<<>>}
    /\ \E i \in 1..Len(routes[1]) : routes[1][i].imports # None

\* --------------------------------------------------- claims on the version

BothDone == pc[1] = "done" /\ pc[2] = "done"
VersionOf(b) == Val(result[b]).version

\* The route tree, the bundler's outputs (whatever the order they are
\* enumerated in) and the stylesheet URL of the two builds are the same
SameBuildInputs ==
    /\ input[1].config = input[2].config
    /\ input[1].metafile.outputs = input[2].metafile.outputs
    /\ input[1].cssBundleHref = input[2].cssBundleHref

\* C5 (as claimed): two runs with the same route tree, bundler outputs and
\* stylesheet URL compute the same version.
C5_VersionOfThreeInputs == (BothDone /\ SameBuildInputs) => VersionOf(1) = VersionOf(2)

\* C5 (amended): two runs with the same route tree, bundler outputs (in any
\* enumeration order), stylesheet URL and reported route exports compute the
\* same version.
C5_Determinism ==
    (BothDone /\ SameBuildInputs /\ input[1].exports = input[2].exports)
        => VersionOf(1) = VersionOf(2)

\* Both builds returned, over the same outputs enumerated in different
\* orders, with at least two routes in the manifest
C5_Witness ==
    /\ BothDone /\ SameBuildInputs /\ input[1].exports = input[2].exports
    /\ input[1].metafile.order # input[2].metafile.order
    /\ Len(Val(result[1]).routes) >= 2

\* C6: two create calls that differ only in hmr return the same version,
\* entry and routes; hmr is returned as the manifest's hmr field only.
C6_HmrNotFingerprinted ==
    (BothDone /\ [input[1] EXCEPT !.hmr = None] = [input[2] EXCEPT !.hmr = None])
        => /\ VersionOf(1) = VersionOf(2)
           /\ Val(result[1]).entry = Val(result[2]).entry
           /\ Val(result[1]).routes = Val(result[2]).routes
           /\ \A b \in Builds : Val(result[b]).hmr = input[b].hmr

\* Both builds returned, one with a hot-reload descriptor and one without
C6_Witness ==
    /\ BothDone
    /\ [input[1] EXCEPT !.hmr = None] = [input[2] EXCEPT !.hmr = None]
    /\ input[1].hmr # input[2].hmr
    /\ Val(result[1]).routes # <<>>

\* --------------------------------------------------- claims on the builder

OutputOf(b, k) == input[b].metafile.outputs[k]
OutputKeys(b) == DOMAIN input[b].metafile.outputs
UrlOfKey(b, k) == resolveUrl(Cfg(b), Os(b), k)

\* Output k is an entry point that resolves to the configured client entry
ResolvesToClient(b, k) ==
    /\ OutputOf(b, k).entryPoint # None
    /\ PathResolve(Val(OutputOf(b, k).entryPoint), Os(b)) = Cfg(b).entryClientFilePath

\* Output k is an entry point that carries the route-module tag
RouteTagged(b, k) ==
    /\ OutputOf(b, k).entryPoint # None
    /\ ~ResolvesToClient(b, k)
    /\ StartsWith(Val(OutputOf(b, k).entryPoint), RouteModulePrefix)

\* The file a route-tagged output resolves to
TaggedFile(b, k) == StripRouteTags(Val(OutputOf(b, k).entryPoint))

ConfiguredFiles(b) == {Cfg(b).routes[i].file : i \in 1..Len(Cfg(b).routes)}

\* C7: when no output resolves to the client entry, create returns no
\* manifest and never enters the optimizer; it fails for the missing entry
\* only once every output has been processed, and no file is written.
C7_MissingEntryFatal ==
    (\A k \in OutputKeys(1) : ~ResolvesToClient(1, k)) =>
        /\ result[1] = None
        /\ entry[1] = None
        /\ pc[1] \in {"loop", "lookup", "error"}
        /\ pass[1] = 0
        /\ err[1] = "Missing output for entry point" => keys[1] = <<>> /\ pending[1] = <<>>
        /\ writing[1] = None /\ disk = EmptyDisk

\* create failed for the missing entry after it had built a route
C7_Witness ==
    /\ \A k \in OutputKeys(1) : ~ResolvesToClient(1, k)
    /\ pc[1] = "error" /\ err[1] = "Missing output for entry point"
    /\ routes[1] # <<>>

\* C8: a route-tagged entry point whose file backs no configured route is
\* never passed over: create returns no manifest, never enters the optimizer
\* and the loop never moves beyond that output.
C8_OrphanRouteFatal ==
    \A k \in OutputKeys(1) :
        (RouteTagged(1, k) /\ TaggedFile(1, k) \notin ConfiguredFiles(1)) =>
            /\ result[1] = None
            /\ pc[1] \in {"loop", "lookup", "error"}
            /\ Includes(keys[1], k)
            /\ pc[1] = "error" => err[1] = "Cannot get route(s) for entry point"

\* create failed on such an entry point after the entry and a route were set
C8_Witness ==
    /\ pc[1] = "error" /\ err[1] = "Cannot get route(s) for entry point"
    /\ entry[1] # None /\ routes[1] # <<>>
    /\ \E k \in OutputKeys(1) :
        RouteTagged(1, k) /\ TaggedFile(1, k) \notin ConfiguredFiles(1)

\* Route r of the manifest is a configured route built from a route-tagged
\* output of its source file
FromTaggedOutput(b, r) ==
    \E i \in 1..Len(Cfg(b).routes), k \in OutputKeys(b) :
        /\ Cfg(b).routes[i].id = r.id
        /\ RouteTagged(b, k)
        /\ TaggedFile(b, k) = Cfg(b).routes[i].file
        /\ r.module = UrlOfKey(b, k)

\* C9: every route of the routes map is a configured route built from a
\* route-tagged entry-point output of its file, and the entry comes from an
\* output that resolves to the client entry; no other output adds a route or
\* sets the entry.
C9_NoSpuriousEntries ==
    /\ \A i \in 1..Len(routes[1]) : FromTaggedOutput(1, routes[1][i])
    /\ entry[1] # None =>
        \E k \in OutputKeys(1) : ResolvesToClient(1, k) /\ Val(entry[1]).module = UrlOfKey(1, k)
    /\ result[1] # None =>
        /\ Val(result[1]).entry = Val(entry[1])
        /\ \A i \in 1..Len(Val(result[1]).routes) : FromTaggedOutput(1, Val(result[1]).routes[i])

\* create returned a manifest with a route although the bundler also emitted
\* an entry point that is neither the client entry nor route-tagged
C9_Witness ==
    /\ result[1] # None /\ Val(result[1]).routes # <<>>
    /\ \E k \in OutputKeys(1) :
        /\ OutputOf(1, k).entryPoint # None
        /\ ~ResolvesToClient(1, k) /\ ~RouteTagged(1, k)

RECURSIVE StatementUrls(_, _)
\* The resolved URLs of the imports of kind import-statement, in order
StatementUrls(b, imports) ==
    IF imports = <<>> THEN <<>>
    ELSE (IF Head(imports).kind = "import-statement"
          THEN <<resolveUrl(Cfg(b), Os(b), Head(imports).path)>> ELSE <<>>)
         \o StatementUrls(b, Tail(imports))

\* The routes as the builder built them: `routes` until the optimizer runs
BuiltRoutes(b) == IF pass[b] = 0 THEN routes[b] ELSE rawRoutes[b]

\* C10: the raw import list of the entry and of each route is exactly the
\* resolved URLs of the import-statement imports of its output, in order.
C10_OnlyStaticImports ==
    /\ entry[1] # None =>
        \E k \in OutputKeys(1) :
            /\ ResolvesToClient(1, k)
            /\ Val(entry[1]).module = UrlOfKey(1, k)
            /\ Val(entry[1]).imports = StatementUrls(1, OutputOf(1, k).imports)
    /\ \A i \in 1..Len(BuiltRoutes(1)) :
        \E k \in OutputKeys(1) :
            /\ RouteTagged(1, k)
            /\ BuiltRoutes(1)[i].module = UrlOfKey(1, k)
            /\ BuiltRoutes(1)[i].imports = {StatementUrls(1, OutputOf(1, k).imports)}

\* create returned; a route's output mixed static imports with another kind
C10_Witness ==
    /\ pc[1] = "done"
    /\ \E i \in 1..Len(rawRoutes[1]), k \in OutputKeys(1) :
        /\ RouteTagged(1, k)
        /\ rawRoutes[1][i].module = UrlOfKey(1, k)
        /\ Len(Val(rawRoutes[1][i].imports)) >= 2
        /\ Len(Val(rawRoutes[1][i].imports)) < Len(OutputOf(1, k).imports)

\* ------------------------------------------- claims on the routes' entries

\* The flags of route r say what names holds, each flag for its own name
FlagsMirror(r, names) ==
    /\ r.hasAction <=> "action" \in names
    /\ r.hasLoader <=> "loader" \in names
    /\ r.hasCatchBoundary <=> "CatchBoundary" \in names
    /\ r.hasErrorBoundary <=> "ErrorBoundary" \in names

\* C11: for every route of the routes map and of the manifest create returns,
\* hasAction, hasLoader, hasCatchBoundary and hasErrorBoundary are each true
\* exactly when the export names reported for the route's id hold "action",
\* "loader", "CatchBoundary" and "ErrorBoundary" respectively.
C11_FlagsMirrorExports ==
    /\ \A i \in 1..Len(routes[1]) :
        FlagsMirror(routes[1][i], input[1].exports[routes[1][i].id])
    /\ result[1] # None =>
        \A i \in 1..Len(Val(result[1]).routes) :
            FlagsMirror(Val(result[1]).routes[i], input[1].exports[Val(result[1]).routes[i].id])

\* create returned a route whose module exports loader only, with hasLoader
\* alone true, and a route with both hasAction and hasLoader
C11_Witness ==
    /\ pc[1] = "done"
    /\ \E i, j \in 1..Len(Val(result[1]).routes) :
        LET r == Val(result[1]).routes[i]
            s == Val(result[1]).routes[j]
        IN  /\ input[1].exports[r.id] = {"loader"}
            /\ r.hasLoader /\ ~r.hasAction /\ ~r.hasCatchBoundary /\ ~r.hasErrorBoundary
            /\ s.hasAction /\ s.hasLoader /\ ~s.hasErrorBoundary

\* The configured file of the route id
FileOf(b, id) ==
    Cfg(b).routes[CHOOSE i \in 1..Len(Cfg(b).routes) : Cfg(b).routes[i].id = id].file

\* list without the URLs of covered, in list's order
Without(list, covered) == SelectSeq(list, LAMBDA url : url \notin SetOf(covered))

\* The pruned imports of the parent of route r, empty when it has none
ParentPruned(b, r) ==
    IF HasParent(r) THEN PrunedOf(b, Val(r.parentId)) ELSE <<>>

\* C12: once the builder has run, every configured route whose file a
\* route-tagged output resolves to has its own entry; entries backed by the
\* same file have the same module URL and equal raw import lists; and while
\* the optimizer runs, an entry not yet pruned keeps its raw list whatever was
\* pruned from another entry of the same file, and a pruned entry holds its
\* own raw list without the entry's imports and its own parent's pruned list.
C12_SharedFile ==
    pass[1] >= 1 =>
        /\ \A k \in OutputKeys(1) : \A i \in 1..Len(Cfg(1).routes) :
            (RouteTagged(1, k) /\ Cfg(1).routes[i].file = TaggedFile(1, k))
                => HasRoute(rawRoutes[1], Cfg(1).routes[i].id)
        /\ \A i, j \in 1..Len(rawRoutes[1]) :
            FileOf(1, rawRoutes[1][i].id) = FileOf(1, rawRoutes[1][j].id) =>
                /\ rawRoutes[1][i].module = rawRoutes[1][j].module
                /\ rawRoutes[1][i].imports = rawRoutes[1][j].imports
                /\ rawRoutes[1][i].imports # None
        /\ pc[1] = "optimize" =>
            \A i, j \in 1..Len(routes[1]) :
                (i # j /\ FileOf(1, routes[1][i].id) = FileOf(1, routes[1][j].id)) =>
                    IF routes[1][j].id \in DOMAIN importsCache[1]
                    THEN PrunedOf(1, routes[1][j].id)
                            = Without(RawOf(1, routes[1][j].id),
                                      EntryImports(1) \o ParentPruned(1, routes[1][j]))
                    ELSE routes[1][j].imports = rawRoutes[1][j].imports

\* The optimizer has pruned one of two routes backed by one file, taking a
\* URL from it, and has yet to prune the other, which holds its raw list
C12_Witness ==
    /\ pc[1] = "optimize"
    /\ \E i, j \in 1..Len(routes[1]) :
        /\ i # j
        /\ FileOf(1, routes[1][i].id) = FileOf(1, routes[1][j].id)
        /\ routes[1][i].id \in DOMAIN importsCache[1]
        /\ routes[1][j].id \notin DOMAIN importsCache[1]
        /\ routes[1][i].imports # None
        /\ routes[1][i].imports # rawRoutes[1][i].imports
        /\ routes[1][j].imports = rawRoutes[1][j].imports
        /\ routes[1][i].module = routes[1][j].module

\* ------------------------------------------- claims on the pruned lists

RECURSIVE IsSubsequence(_, _)
\* s is t with some elements left out
IsSubsequence(s, t) ==
    IF s = <<>> THEN TRUE
    ELSE IF t = <<>> THEN FALSE
    ELSE IF s[1] = t[1] THEN IsSubsequence(Tail(s), Tail(t))
    ELSE IsSubsequence(s, Tail(t))

\* C13: for every route, at every step of the optimizer, the import list is
\* a subsequence of the route's raw import list: URLs are removed, none is
\* added and the order of those kept is the raw order.
C13_OnlyRemoves ==
    \A id \in Ids(1) : IsSubsequence(PrunedOf(1, id), RawOf(1, id))

\* A pass ended with a route that kept two URLs and a route that lost some
\* of its URLs and kept others
C13_Witness ==
    /\ PassDone(1, 1)
    /\ \E id \in Ids(1) : Len(PrunedOf(1, id)) >= 2
    /\ \E id \in Ids(1) : Len(PrunedOf(1, id)) > 0 /\ Len(PrunedOf(1, id)) < Len(RawOf(1, id))

\* C20: every pruned route's import list is its raw list without the URLs of
\* the entry's import list when it has no parent, and without the URLs of the
\* entry's import list and of its parent's pruned list when it has one; with
\* entry [A, B], parent raw [A, B, C] and child raw [A, B, C, D] the parent
\* ends with [C] and the child with [D].
C20_PruningRule ==
    /\ \A id \in Ids(1) :
        id \in DOMAIN importsCache[1] =>
            PrunedOf(1, id) = Without(RawOf(1, id),
                                      EntryImports(1)
                                      \o ParentPruned(1, GetRoute(routes[1], id)))
    /\ (PassDone(1, 1) /\ rawRoutes[1] \in {ParentFirst, ChildFirst}) =>
        \A i \in 1..2 :
            routes[1][i].imports =
                IF HasParent(routes[1][i]) THEN {<<UrlD>>} ELSE {<<UrlC>>}

\* The pass ended on the parent and child above, the child visited first
C20_Witness ==
    /\ PassDone(1, 1)
    /\ rawRoutes[1] = ChildFirst
    /\ EntryImports(1) = <<UrlA, UrlB>>

\* ------------------------------------------- claims on the parent edges

\* Some route of rts has a parentId that is the id of no other route of rts
Dangling(rts) ==
    \E i \in 1..Len(rts) :
        /\ rts[i].parentId # None
        /\ ~\E j \in 1..Len(rts) : j # i /\ rts[j].id = Val(rts[i].parentId)

\* C14: in every manifest create returns, each route's parentId, if present,
\* is the id of another route of the manifest; when the builder leaves a
\* route whose parent has no route bundle, create returns no manifest.
C14_NoDanglingParent ==
    /\ result[1] # None => ~Dangling(Val(result[1]).routes)
    /\ (pass[1] >= 1 /\ Dangling(rawRoutes[1])) =>
        /\ result[1] = None
        /\ pc[1] \in {"optimize", "error"}
        /\ pc[1] = "error" => err[1] = "TypeError"

\* create returned a manifest with two routes below a third
C14_Witness ==
    /\ pc[1] = "done"
    /\ \E i, j, k \in 1..Len(Val(result[1]).routes) :
        LET r == Val(result[1]).routes[i]
            s == Val(result[1]).routes[j]
            t == Val(result[1]).routes[k]
        IN  /\ i # j
            /\ r.parentId = Some(t.id)
            /\ s.parentId = Some(t.id)
            /\ t.parentId = None

\* ---------------------------------------------------- claims on the writer

\* The version in upper case, and the name of the manifest's file
UpperVersion(m) ==
    [i \in 1..Len(m.version) |->
        IF m.version[i] \in 97..102 THEN m.version[i] - 32 ELSE m.version[i]]
FilenameOf(m) == ManifestPrefix \o UpperVersion(m) \o JsSuffix

\* C15: after a successful write the file manifest-<V>.js exists in the
\* assets build directory, V being the manifest's 8-character version in
\* upper case; the manifest's url is publicPath followed by that filename;
\* and the file holds the one statement that assigns the serialized manifest,
\* its url member included, to window.__remixManifest.
C15_WriteOutput ==
    pc[1] = "written" =>
        LET m == Val(result[1])
            file == Cfg(1).assetsBuildDirectory \o HostSep(Os(1)) \o FilenameOf(m)
        IN  /\ Len(m.version) = 8
            /\ \A i \in 1..8 : UpperVersion(m)[i] \in (48..57) \cup (65..70)
            /\ m.url = Some(Cfg(1).publicPath \o FilenameOf(m))
            /\ Cfg(1).assetsBuildDirectory \in disk.dirs
            /\ file \in DOMAIN disk.files
            /\ disk.files[file] = WindowPrefix \o StringifyManifest(m) \o <<59>>
            /\ EndsWith(disk.files[file],
                        <<44>> \o JsonString(Key.url) \o <<58>>
                        \o JsonString(Cfg(1).publicPath \o FilenameOf(m)) \o <<125, 59>>)

\* write succeeded on a win32 host for a manifest with routes whose version
\* has a letter among its digits
C15_Witness ==
    /\ pc[1] = "written"
    /\ Os(1) = "win32"
    /\ Val(result[1]).routes # <<>>
    /\ \E i \in 1..8 : Val(result[1]).version[i] \in 97..102

\* C16 (as claimed): when write has failed, the manifest file does not exist
\* or holds the full serialized manifest.
C16_WriteAtomic ==
    (pc[1] = "error" /\ writing[1] # None) =>
        \/ Val(writing[1]).file \notin DOMAIN disk.files
        \/ disk.files[Val(writing[1]).file] = Val(writing[1]).contents

\* ------------------------------------------- claims on the order of phases

\* The configured routes that the route-tagged outputs of build b back
BackedRoutes(b) ==
    {Cfg(b).routes[i].id : i \in {j \in 1..Len(Cfg(b).routes) :
        \E k \in OutputKeys(b) :
            RouteTagged(b, k) /\ TaggedFile(b, k) = Cfg(b).routes[j].file}}

\* C17: in each create call, once the optimizer has begun, every output has
\* been visited and no lookup is pending, the entry is set, every route that
\* a route-tagged output backs is in the routes map with its raw import list,
\* and the optimizer's routes are the routes the builder left, no more.
C17_BuilderBeforeOptimizer ==
    \A b \in Builds :
        pass[b] >= 1 =>
            /\ keys[b] = <<>> /\ pending[b] = <<>>
            /\ entry[b] # None
            /\ SetOf(RouteIds(rawRoutes[b])) = BackedRoutes(b)
            /\ \A i \in 1..Len(rawRoutes[b]) : rawRoutes[b][i].imports # None
            /\ RouteIds(routes[b]) = RouteIds(rawRoutes[b])

\* One build's optimizer has pruned a route while the other build is
\* waiting for a lookup
C17_Witness ==
    \E b, c \in Builds :
        /\ pc[b] = "optimize" /\ Len(rawRoutes[b]) >= 2 /\ DOMAIN importsCache[b] # {}
        /\ pc[c] = "lookup"

\* ------------------------------------------------ claims on two builds

RECURSIVE PutGroup(_, _, _, _)
\* The loop at manifest.ts:74-89 over the routes of group, uninterrupted
PutGroup(inp, key, group, rts) ==
    IF group = <<>> THEN rts
    ELSE PutGroup(inp, key, Tail(group),
                  PutRoute(rts, Head(group).id,
                           ManifestRoute(inp.config, inp.os, key, inp.metafile.outputs[key],
                                         Head(group), inp.exports[Head(group).id])))

RECURSIVE BuildAlone(_, _, _)
\* The loop at manifest.ts:54-91 over the keys ks, uninterrupted, from st
BuildAlone(inp, ks, st) ==
    IF ks = <<>> THEN st
    ELSE
    LET output == inp.metafile.outputs[Head(ks)]
        ep == Val(output.entryPoint)
    IN  IF ~IsSome(output.entryPoint) THEN BuildAlone(inp, Tail(ks), st)
        ELSE IF IsClientEntry(inp.config, inp.os, ep)
        THEN BuildAlone(inp, Tail(ks),
                        [st EXCEPT !.entry =
                            Some([module |-> resolveUrl(inp.config, inp.os, Head(ks)),
                                  imports |-> resolveImports(inp.config, inp.os, output.imports)])])
        ELSE IF ~IsRouteModule(ep) THEN BuildAlone(inp, Tail(ks), st)
        ELSE IF ~invariant(routesByFile(inp.config, StripRouteTags(ep)))
        THEN [st EXCEPT !.err = "Cannot get route(s) for entry point"]
        ELSE BuildAlone(inp, Tail(ks),
                        [st EXCEPT !.routes =
                            PutGroup(inp, Head(ks),
                                     Val(routesByFile(inp.config, StripRouteTags(ep))), @)])

RECURSIVE OptimizeAlone(_, _, _, _)
\* The loop at manifest.ts:147-149 over the keys ks, uninterrupted
OptimizeAlone(ks, rts, entryImports, cache) ==
    IF ks = <<>> THEN [routes |-> rts, entryImports |-> entryImports, threw |-> FALSE]
    ELSE LET call == optimizeRouteImports(Head(ks), rts, entryImports, cache)
         IN  IF call.threw
             THEN [routes |-> rts, entryImports |-> entryImports, threw |-> TRUE]
             ELSE OptimizeAlone(Tail(ks), call.routes, call.parentImports, call.cache)

\* What create does with the arguments inp when nothing else runs: the
\* manifest it returns, or the message of the error it throws
CreateAlone(inp) ==
    LET built == BuildAlone(inp, LoopKeys(inp.metafile),
                            [entry |-> None, routes |-> <<>>, err |-> ""])
        opt == OptimizeAlone(RouteIds(built.routes), built.routes,
                             Val(built.entry).imports, EmptyCache)
    IN  IF built.err # "" THEN [manifest |-> None, err |-> built.err]
        ELSE IF ~invariant(built.entry)
        THEN [manifest |-> None, err |-> "Missing output for entry point"]
        ELSE IF opt.threw THEN [manifest |-> None, err |-> "TypeError"]
        ELSE [manifest |->
                Some(Manifest([Val(built.entry) EXCEPT !.imports = opt.entryImports],
                              opt.routes, inp.cssBundleHref, inp.hmr)),
              err |-> ""]

\* Build b took no step: it stands where it stood
Stands(b) ==
    /\ pc'[b] = pc[b] /\ keys'[b] = keys[b]
    /\ pending'[b] = pending[b] /\ optKeys'[b] = optKeys[b]

\* C18: two create calls interleaved at every step each return the manifest,
\* or throw the error, that the same call gives when run alone; a step of
\* one build leaves the entry, the routes map, the import cache and the
\* result of the other as they were; and no step changes a build's config,
\* metafile or other arguments.
C18_Isolated ==
    /\ [](\A b \in Builds :
            /\ pc[b] = "done" => result[b] = CreateAlone(input[b]).manifest
            /\ pc[b] = "error" =>
                result[b] = None /\ err[b] = CreateAlone(input[b]).err)
    /\ [][/\ input' = input
          /\ \A b \in Builds :
                Stands(b) =>
                    /\ entry'[b] = entry[b] /\ routes'[b] = routes[b]
                    /\ rawRoutes'[b] = rawRoutes[b]
                    /\ importsCache'[b] = importsCache[b]
                    /\ curKey'[b] = curKey[b] /\ result'[b] = result[b]]_vars

\* Both builds returned manifests whose routes lost imports to pruning, and
\* the two were given different arguments
C18_Witness ==
    /\ BothDone
    /\ input[1] # input[2]
    /\ \A b \in Builds :
        \E i \in 1..Len(routes[b]) : routes[b][i].imports # rawRoutes[b][i].imports

\* ------------------------------------------------------ claims on the URLs

\* str with each "\" turned into "/"
Slashed(str) == [i \in 1..Len(str) |-> IF str[i] = 92 THEN 47 ELSE str[i]]

\* The URL of the path p in build b: the public path, then p relative to the
\* assets build directory with forward slashes
ExpectedUrl(b, p) ==
    Cfg(b).publicPath
    \o Slashed(PathRelative(Cfg(b).assetsBuildDirectory, PathResolve(p, Os(b)), Os(b)))

\* url begins with the public path and has no "\" after it
BrowserUrl(b, url) ==
    /\ StartsWith(url, Cfg(b).publicPath)
    /\ \A i \in (Len(Cfg(b).publicPath) + 1)..Len(url) : url[i] # 92

\* url is the URL of output k, the same on every host: what follows "o/" in
\* the key, after the public path
UrlOfOutput(b, url, k) ==
    /\ url = ExpectedUrl(b, k)
    /\ url = Cfg(b).publicPath \o SubSeq(k, Len(AssetsDir) + 2, Len(k))
    /\ BrowserUrl(b, url)

\* url is the URL of a path that output k imports
UrlOfImport(b, url, k) ==
    /\ \E n \in 1..Len(OutputOf(b, k).imports) :
        url = ExpectedUrl(b, OutputOf(b, k).imports[n].path)
    /\ BrowserUrl(b, url)

\* C19: on either host, the module URL and every import URL of the entry and
\* of every route is the public path followed by the path of the file
\* relative to the assets build directory, each "\" replaced by "/"; it has
\* no "\" after the public path and is the same on both hosts.
C19_UrlResolution ==
    /\ entry[1] # None =>
        \E k \in OutputKeys(1) :
            /\ ResolvesToClient(1, k)
            /\ UrlOfOutput(1, Val(entry[1]).module, k)
            /\ \A n \in 1..Len(Val(entry[1]).imports) :
                UrlOfImport(1, Val(entry[1]).imports[n], k)
    /\ \A i \in 1..Len(routes[1]) :
        \E k \in OutputKeys(1) :
            /\ RouteTagged(1, k)
            /\ UrlOfOutput(1, routes[1][i].module, k)
            /\ \A n \in 1..Len(ImportsOrEmpty(routes[1][i].imports)) :
                UrlOfImport(1, ImportsOrEmpty(routes[1][i].imports)[n], k)

\* On a win32 host create returned a route whose bundle lies in a directory
\* below the assets build directory and a route that imports a chunk in one
C19_Witness ==
    /\ pc[1] = "done"
    /\ Os(1) = "win32"
    /\ \E i, j \in 1..Len(rawRoutes[1]) :
        /\ rawRoutes[1][i].module = PublicPath \o <<115, 47, 98>>
        /\ Includes(Val(rawRoutes[1][j].imports), PublicPath \o <<115, 47, 112>>)

\* ------------------------------------ claims on the optimizer's traversal

\* The orders the keys ks can be enumerated in
Orders(ks) ==
    {[i \in 1..Len(ks) |-> ks[f[i]]] :
        f \in {g \in [1..Len(ks) -> 1..Len(ks)] :
                 \A i, j \in 1..Len(ks) : g[i] = g[j] => i = j}}

\* C21: when a pass ends, every route holds the import list that a pass
\* visiting the routes in any other order leaves it with; and a call for a
\* route already in the cache, its cached list empty or not, writes no
\* imports field and returns the cached list, each call writing only the
\* fields of routes not yet in the cache, each once.
C21_OrderIndependent ==
    /\ PassDone(1, 1) =>
        \A ks \in Orders(RouteIds(rawRoutes[1])) :
            LET other == OptimizeAlone(ks, rawRoutes[1], EntryImports(1), EmptyCache)
            IN  /\ ~other.threw
                /\ \A id \in Ids(1) :
                    GetRoute(other.routes, id).imports = GetRoute(routes[1], id).imports
    /\ (pc[1] = "optimize" /\ optKeys[1] # <<>>) =>
        LET call == OptimizeCall(1)
        IN  /\ \A i \in 1..Len(call.writes) :
                /\ call.writes[i] \notin DOMAIN importsCache[1]
                /\ \A j \in 1..Len(call.writes) : call.writes[i] = call.writes[j] => i = j
            /\ Head(optKeys[1]) \in DOMAIN importsCache[1] =>
                /\ call.writes = <<>>
                /\ call.ret = importsCache[1][Head(optKeys[1])]
                /\ call.routes = routes[1]

\* The loop is about to visit a parent that the visit of its child has
\* already pruned, to an empty list
C21_Witness ==
    /\ pc[1] = "optimize" /\ pass[1] = 1 /\ optKeys[1] # <<>>
    /\ Head(optKeys[1]) \in DOMAIN importsCache[1]
    /\ importsCache[1][Head(optKeys[1])] = <<>>
    /\ RawOf(1, Head(optKeys[1])) # <<>>
    /\ \E id \in DOMAIN importsCache[1] :
        GetRoute(routes[1], id).parentId = Some(Head(optKeys[1]))

\* C24: after the pass, every URL of a route's raw import list is in the
\* entry's import list, in the route's own pruned list or in the pruned list
\* of one of its ancestors; a URL the pass removed from a route is loaded by
\* the entry or by an ancestor.
C24_NothingDropped ==
    PassDone(1, 1) =>
        \A id \in Ids(1) : \A n \in 1..Len(RawOf(1, id)) :
            LET url == RawOf(1, id)[n]
            IN  /\ \/ Includes(EntryImports(1), url)
                   \/ Includes(PrunedOf(1, id), url)
                   \/ \E a \in AncestorsOf(routes[1], id) : Includes(PrunedOf(1, a), url)
                /\ ~Includes(PrunedOf(1, id), url) =>
                    \/ Includes(EntryImports(1), url)
                    \/ \E a \in AncestorsOf(routes[1], id) : Includes(PrunedOf(1, a), url)

\* A pass ended on a child that lost one URL to the entry and one to its
\* parent
C24_Witness ==
    /\ PassDone(1, 1)
    /\ \E id \in Ids(1) :
        /\ HasParent(GetRoute(routes[1], id))
        /\ RawOf(1, id) = <<UrlN, UrlM>>
        /\ PrunedOf(1, id) = <<>>
        /\ EntryImports(1) = <<UrlM>>
        /\ PrunedOf(1, Val(GetRoute(routes[1], id).parentId)) = <<UrlN>>

\* route without its imports field
Framed(route) == [route EXCEPT !.imports = None]

\* C25: throughout optimizeRoutes the routes map has the ids the builder
\* left, in their order, and each route has the id, parentId, path, index,
\* caseSensitive, module and flags the builder gave it; no step of the pass
\* changes the entry's module or import list.
C25_OptimizerFrame ==
    /\ [](/\ RouteIds(routes[1]) = RouteIds(rawRoutes[1])
          /\ \A i \in 1..Len(routes[1]) : Framed(routes[1][i]) = Framed(rawRoutes[1][i]))
    /\ [][entry' = entry]_vars

\* A pass ended having changed the imports of a child whose parent's pruned
\* list is not empty, the entry importing something too
C25_Witness ==
    /\ PassDone(1, 1)
    /\ EntryImports(1) # <<>>
    /\ \E i \in 1..Len(routes[1]) :
        /\ HasParent(routes[1][i])
        /\ PrunedOf(1, Val(routes[1][i].parentId)) # <<>>
        /\ routes[1][i].imports # rawRoutes[1][i].imports

\* C26: over a forest whose parentIds all name routes of the map, each call
\* of the loop writes the visited route and ancestors of it only, no more
\* routes than the route has ancestors and itself, and never throws; the
\* pass ends, and when it has ended every route id is in the import cache.
C26_Terminates ==
    /\ []((pc[1] = "optimize" /\ optKeys[1] # <<>>) =>
            LET call == OptimizeCall(1)
                id == Head(optKeys[1])
            IN  /\ ~call.threw
                /\ SetOf(call.writes) \subseteq {id} \cup AncestorsOf(routes[1], id)
                /\ Len(call.writes) <= 1 + Cardinality(AncestorsOf(routes[1], id)))
    /\ [](optKeys[1] = <<>> => DOMAIN importsCache[1] = Ids(1))
    /\ <>PassDone(1, 1)
    /\ [](pass[1] = 2 => <>PassDone(1, 2))

\* The pass ended over a chain of three routes that was entered at its
\* lowest route
C26_Witness ==
    /\ PassDone(1, 1)
    /\ \E id \in Ids(1) :
        /\ Cardinality(AncestorsOf(routes[1], id)) = 2
        /\ id = routes[1][1].id
    /\ DOMAIN importsCache[1] = Ids(1)

\* ------------------------------------------------ claims on the dev origin

\* C23: the origin resolveDevOrigin returns has the scheme flag when it is
\* given, otherwise the scheme of the unstable_dev object when it is given,
\* otherwise "https" when the tlsKey and tlsCert flags are both given and
\* "http" when they are not; an explicit "http" comes back as "http".
C23_SchemePrecedence ==
    (IsSome(origin) /\ Val(origin).pc = "returned") =>
        LET dev == Val(origin).dev
            flags == Val(origin).flags
        IN  Val(origin).scheme =
                IF IsSome(flags.scheme) THEN flags.scheme
                ELSE IF dev.kind = "object" /\ IsSome(dev.scheme) THEN dev.scheme
                ELSE IF IsSome(flags.tlsKey) /\ IsSome(flags.tlsCert) THEN Some("https")
                ELSE Some("http")

\* ------------------------------------- claims on the bare-modules resolver

\* The specifier after tsconfig path mapping
Mapped(args) ==
    IF IsSome(args.tsconfigPath) /\ args.path \in DOMAIN Val(args.tsconfigPath)
    THEN Val(args.tsconfigPath)[args.path] ELSE args.path

\* The specifiers that are bundled whatever the configuration
AlwaysBundled(path) ==
    \/ path \in {<<64, 114, 101, 109, 105, 120, 45, 114, 117, 110, 47, 99, 115, 115, 45, 98, 117, 110, 100, 108, 101>>,
                                                         \* "@remix-run/css-bundle"
                 <<114, 101, 109, 105, 120>>,                          \* "remix"
                 <<64, 114, 101, 109, 105, 120, 45, 114, 117, 110, 47, 100, 101, 118, 47, 115, 101, 114, 118, 101, 114, 45, 98, 117, 105, 108, 100>>,
                 <<64, 114, 101, 109, 105, 120, 45, 114, 117, 110, 47, 100, 101, 118, 47, 97, 115, 115, 101, 116, 115, 45, 109, 97, 110, 105, 102, 101, 115, 116>>}
    \/ EndsWith(path, <<46, 99, 115, 115>>)                             \* ".css"
    \/ EndsWith(path, <<63, 95, 95, 114, 101, 109, 105, 120, 95, 115, 105, 100, 101, 69, 102, 102, 101, 99, 116, 95, 95>>)

\* serverDependenciesToBundle is "all" or lists the specifier
Listed(bundle, path) ==
    \/ bundle.all
    \/ \E n \in 1..Len(bundle.patterns) :
        \/ bundle.patterns[n].type = "string" /\ bundle.patterns[n].source = path
        \/ bundle.patterns[n].type = "regexp" /\ StartsWith(path, bundle.patterns[n].source)

\* C22: the resolver returns the path marked external if and only if the
\* specifier mapped by the tsconfig paths does not start with "node:" or ".",
\* is not absolute on the host, the specifier is not an always-bundled one,
\* and serverDependenciesToBundle neither is "all" nor lists it; otherwise it
\* returns undefined; the same call with the warning callback configured the
\* other way returns the same.
C22_ExternalizationPolicy ==
    (IsSome(resolution) /\ Val(resolution).pc = "returned") =>
        LET args == Val(resolution).args
            mapped == Mapped(args)
            external ==
                /\ ~StartsWith(mapped, <<110, 111, 100, 101, 58>>)
                /\ ~StartsWith(mapped, <<46>>)
                /\ ~(mapped # <<>> /\ mapped[1] \in Seps(args.os))
                /\ ~AlwaysBundled(args.path)
                /\ ~Listed(args.serverDependenciesToBundle, args.path)
        IN  /\ Val(resolution).result =
                 IF external THEN Some([path |-> args.path, external |-> TRUE]) ELSE None
            /\ onResolve([args EXCEPT !.onWarning = ~@]).result = Val(resolution).result

\* The resolver externalized a specifier that no tsconfig path maps, under a
\* tsconfig that maps another and a list that names others, and warned of
\* an ESM-only package
C22_Witness ==
    /\ IsSome(resolution) /\ Val(resolution).pc = "returned"
    /\ IsSome(Val(resolution).result)
    /\ IsSome(Val(resolution).args.tsconfigPath)
    /\ Val(resolution).args.path \notin DOMAIN Val(Val(resolution).args.tsconfigPath)
    /\ Len(Val(resolution).args.serverDependenciesToBundle.patterns) = 2
    /\ Len(Val(resolution).warnings) = 1
    /\ Val(resolution).args.pkg.installed

====
